---- MODULE Spec2Model ----
(***************************************************************************)
(* Model of the competitor-research orchestration of utils.py:             *)
(*   research_competitor_to_json   (one research task, tenacity @retry)    *)
(*   research_competitors_async    (fan-out over a list of names)          *)
(*   update_single_competitor_async (re-research of one record file)       *)
(*   discover_new_competitors_async, generate_top_changes_summary_async,   *)
(*   dedupe_sources_preserve_order, map_data_to_notion_properties,         *)
(*   add_json_to_notion_db and populate_notion_db_from_folder,             *)
(* and of main_update of update_competitor_research.py.                    *)
(* asyncio is cooperative: a coroutine runs without interruption from one  *)
(* await to the next, so every action below is the code between two awaits.*)
(***************************************************************************)
EXTENDS Integers, Sequences, FiniteSets, TLC

VARIABLES
    mode,       \* which entry point drives the run: "fanout", "task", "life", ...
    names,      \* competitors_list of research_competitors_async; json_files of main_update
    mainPc,     \* position of the driver
    result,     \* value returned by the driver (successful_paths)
    tasks,      \* task index -> locals and position of one coroutine
    fs,         \* the output folder: <<record path, suffix>> -> file content
    today,      \* datetime.now() rendered as %Y-%m-%d, a day number
    first,      \* history: record path -> identifier and date of its first write
    ops,        \* "life" driver: number of operations launched so far
    call,       \* a call outside the task table: function, argument, position, result
    notion      \* the Notion database: its pages, in the order of their creation

vars == <<mode, names, mainPc, result, tasks, fs, today, first, ops, call, notion>>

(***************************** bounds **************************************)
MaxNames == 2
MaxDay == 2
MaxRequests == 4
MaxOps == 2
MaxSources == 3
MaxBlocks == 2

(************************* program constants *******************************)
max_retries == 3
update_max_retries == 2
\* Notion's limit of characters per rich text object
BlockLimit == 2000

\* The active schema and enum: any non-empty list / mapping the configuration names.
CSV_SCHEMA ==
    <<"Competitor Name", "Type", "WebsiteURL", "YearFounded", "Key_Features", "Overview",
      "Research_Sources", "CompetitorID", "DateAdded", "LastUpdated">>

COMPETITOR_TYPE_DEFINITIONS == [Direct |-> "same buyers", Indirect |-> "adjacent buyers"]

COMPETITOR_TYPES == DOMAIN COMPETITOR_TYPE_DEFINITIONS

SchemaFields == {CSV_SCHEMA[i] : i \in 1..Len(CSV_SCHEMA)}

(*************************** JSON values ***********************************)
\* A JSON value is a pair <<tag, payload>>.
JStr(s) == <<"str", s>>
JNum(n) == <<"num", n>>
JNull == <<"null", 0>>
JList(s) == <<"list", s>>
JDict(f) == <<"dict", f>>
EmptyMap == [k \in {} |-> JNull]
\* a string given by its characters, where the code reads them
JText(chars) == <<"text", chars>>
IsText(v) == v[1] = "text"

IsDict(v) == v[1] = "dict"
IsList(v) == v[1] = "list"
Keys(v) == DOMAIN v[2]
HasKey(v, k) == k \in Keys(v)
\* dict.get(k, default)
Get(v, k, default) == IF HasKey(v, k) THEN v[2][k] ELSE default
\* d[k] = x
Put(v, k, x) == JDict([kk \in Keys(v) \cup {k} |-> IF kk = k THEN x ELSE v[2][kk]])
\* Python truthiness of a JSON value (`not x`)
Truthy(v) ==
    CASE v[1] = "null" -> FALSE
      [] v[1] = "str" -> v[2] # ""
      [] v[1] = "num" -> v[2] # 0
      [] v[1] = "list" -> Len(v[2]) > 0
      [] v[1] = "dict" -> Keys(v) # {}
      [] OTHER -> TRUE

(***************************** names and paths *****************************)
\* Competitor names are strings, modelled as sequences of characters.
Names == { <<"a", " ", "b">>, <<"a", "/", "b">>, <<"c">> }

SanitizeChar(c) == IF c \in {" ", "/"} THEN "_" ELSE c
\* variant of OutputFilePath: the name is left out of the path
OutputFilePathOfFolder(name) == <<"competitor", ".json">>
\* competitor_name.replace(' ', '_').replace('/', '_') + ".json", joined to the folder
OutputFilePath(name) == [i \in 1..Len(name) |-> SanitizeChar(name[i])] \o <<".json">>

RecordPaths == {OutputFilePath(n) : n \in Names}
Suffixes == {"", ".error.txt", ".fatal.txt"}
FileKeys == RecordPaths \X Suffixes

Absent == [kind |-> "absent"]
Partial == [kind |-> "partial"]
JsonFile(data, writer, src) == [kind |-> "json", data |-> data, writer |-> writer, src |-> src]
TextFile(text) == [kind |-> "text", text |-> text]

\* with open(path, "w") as f: f.write(...) / json.dump(..., f):
\* open truncates the file, the dump may fail after that.
\* The fan-out run is explored with writes that succeed or fail at open (the
\* raising paths), the single-task runs with every outcome of a write.
IoOutcomes == IF mode = "fanout" THEN {"ok", "open_fails"} ELSE {"ok", "open_fails", "dump_fails"}
WriteFile(fsys, key, content, io) ==
    CASE io = "ok" -> [fsys EXCEPT ![key] = content]
      [] io = "dump_fails" -> [fsys EXCEPT ![key] = Partial]
      [] OTHER -> fsys


(***************************** model responses *****************************)
\* What `await model.generate_content_async(...)` can resume with: an exception,
\* or a response whose (fence-stripped) text is one of the texts below.
ModelError == "<model error>"
Invalid == <<"invalid", 0>>

Source1 == JDict([url |-> JStr("u1"), description |-> JStr("d1")])
Source2 == JDict([url |-> JStr("u2"), description |-> JStr("d2"), title |-> JStr("t2")])
UrlOnly == JDict([url |-> JStr("u3")])
DescriptionOnly == JDict([description |-> JStr("d4")])
MixedSources == JList(<<Source1, JStr("u5"), UrlOnly, Source2, DescriptionOnly, Source1>>)

FullRecord ==
    JDict([k \in SchemaFields |->
        CASE k = "Competitor Name" -> JStr("Acme")
          [] k = "Type" -> JStr("Direct")
          [] k = "Research_Sources" -> JList(<<Source1>>)
          [] k = "WebsiteURL" -> JStr("https://acme.example")
          [] k = "YearFounded" -> JNum(2020)
          [] k = "Key_Features" -> JList(<<JStr("feature")>>)
          [] k = "Overview" -> JStr("overview")
          [] k = "CompetitorID" -> JStr("model-id")
          [] k = "DateAdded" -> JStr("model-date")
          [] OTHER -> JStr("model-date")])

WithoutKey(d, k) == JDict([kk \in Keys(d) \ {k} |-> d[2][kk]])

\* json.loads(response_text): the parse of each response text of the model.
JsonLoads(text) ==
    CASE text \in {"garbage", "garbage2"} -> Invalid
      [] text = "[]" -> JList(<<>>)
      [] text = "full" -> FullRecord
      [] text = "stale_type" -> Put(FullRecord, "Type", JStr("Legacy"))
      [] text = "empty_type" -> Put(FullRecord, "Type", JStr(""))
      [] text = "null_type" -> Put(FullRecord, "Type", JNull)
      [] text = "num_type" -> Put(FullRecord, "Type", JNum(7))
      [] text = "no_type" -> WithoutKey(FullRecord, "Type")
      [] text = "name_only" -> JDict([k \in {"Competitor Name"} |-> JStr("Acme")])
      [] text = "extra_key" -> Put(FullRecord, "Foo", JStr("bar"))
      [] text = "str_sources" -> Put(FullRecord, "Research_Sources", JStr("see the web"))
      [] text = "mixed_sources" -> Put(FullRecord, "Research_Sources", MixedSources)
      [] text = "no_sources" -> WithoutKey(FullRecord, "Research_Sources")
      [] OTHER -> Invalid

ResearchTexts ==
    IF mode \in {"fanout", "task"}
    THEN {"garbage", "garbage2", "[]", "full"}
    ELSE {"garbage", "[]", "full", "stale_type", "empty_type", "null_type", "num_type",
          "no_type", "name_only", "extra_key", "str_sources", "mixed_sources",
          "no_sources"}

(*************************** the Notion database ***************************)
\* failed and writes are history: some call of the database has raised; the number
\* of writes completed for each record file
EmptyStore == [pages |-> <<>>, failed |-> FALSE, writes |-> <<>>]

(******************************* tasks *************************************)
\* no call outside the task table is in progress
\* requests counts the model requests of the call, text is the last response
NoCall ==
    [fn |-> "none", arg |-> <<>>, pc |-> "idle", out |-> <<>>, requests |-> 0, text |-> ""]
NewCall(fn, arg) == [NoCall EXCEPT !.fn = fn, !.arg = arg, !.pc = "called"]

TaskIds == 1..MaxNames

RetPending == [tag |-> "pending"]
RetNone == [tag |-> "none"]
RetPath(p) == [tag |-> "path", path |-> p]
RetPair(p, s) == [tag |-> "pair", path |-> p, summary |-> s]
\* f"**{competitor_name}:** {change_summary}"
SummaryLine(competitor_name, change_summary) ==
    [name |-> competitor_name, text |-> change_summary]

IdleTask ==
    [kind |-> "none", name |-> <<>>, path |-> <<>>, pc |-> "idle", attempt |-> 0,
     cid |-> JNull, cdate |-> JNull, old |-> JNull, before |-> Absent,
     ret |-> RetPending,
     \* history of the task, read by the properties only
     persisted |-> FALSE, exhausted |-> FALSE,
     requests |-> 0,
     touched |-> {}, lastFail |-> "none", lastText |-> "",
     \* add_json_to_notion_db: existing_page_id, and the history of its calls of
     \* the database: the calls sent, what the lookup gave, whether the write was done
     page |-> JNull, calls |-> <<>>, lookup |-> "none", wrote |-> FALSE]

\* The per-request history is kept in the single-task runs only.
History(t) ==
    IF mode \in {"task", "update"} THEN t
    ELSE IF mode = "fanout"
    THEN [t EXCEPT !.requests = 0, !.lastFail = "none", !.lastText = ""]
    ELSE [t EXCEPT !.requests = 0,
                   !.touched = {}, !.lastFail = "none", !.lastText = ""]

\* the coroutine object research_competitor_to_json(name, folder, ...) before it runs
NewResearchTask(name) ==
    [IdleTask EXCEPT !.kind = "research", !.name = name,
                     !.path = OutputFilePath(name), !.pc = "created"]

SetPc(t, p) == [t EXCEPT !.pc = p]
\* variant of ReturnNone: the failure leaves the coroutine as an exception
RaiseInsteadOfNone(t) == SetPc(t, "raised")
ReturnNone(t) == [t EXCEPT !.pc = "done", !.ret = RetNone]
ReturnPath(t) == [t EXCEPT !.pc = "done", !.ret = RetPath(t.path)]

\* str(uuid.uuid4()): an identifier distinct from every identifier stored or held.
UuidPool == 1..(3 * Cardinality(RecordPaths) + 2 * MaxNames + 1)
UuidOf(v) == IF v[1] = "uuid" THEN {v[2]} ELSE {}
IdOfData(d) == IF IsDict(d) THEN UuidOf(Get(d, "CompetitorID", JNull)) ELSE {}
IdsInUse(self) ==
    UNION ({UuidOf(tasks[i].cid) \cup IdOfData(tasks[i].old) : i \in TaskIds \ {self}}
           \cup {IF fs[<<p, "">>].kind = "json" THEN IdOfData(fs[<<p, "">>].data) ELSE {}
                 : p \in RecordPaths}
           \cup {UuidOf(first[p].id) : p \in RecordPaths})
Uuid4(self) ==
    LET free == UuidPool \ IdsInUse(self)
        Rank(n) == (n - self) % Cardinality(UuidPool)
    IN <<"uuid", CHOOSE n \in free : \A m \in free : Rank(n) <= Rank(m)>>

\* datetime.now().strftime("%Y-%m-%d")
CurrentDate == <<"date", today>>

\* the request counter saturates at MaxRequests
IssueRequest(t) ==
    [t EXCEPT !.pc = "await_model",
              !.requests = IF @ < MaxRequests THEN @ + 1 ELSE @]

\* @retry(wait=wait_random_exponential(multiplier=1, max=120)): no stop argument,
\* so every Exception leaving the body is caught and the body is called again.
\* variant of TenacityOnException: the decorator gives up and re-raises
TenacityReraises(t) == SetPc(t, "raised")
TenacityOnException(t) == SetPc(t, "tenacity_wait")

(******************** research_competitor_to_json **************************)
\* variant of AddSystemFields: a field the model supplied is kept (setdefault)
AddSystemFieldsIfMissing(d, cid, date) ==
    LET Keep(dd, k, x) == IF HasKey(dd, k) THEN dd ELSE Put(dd, k, x)
    IN Keep(Keep(Keep(d, "CompetitorID", cid), "DateAdded", date), "LastUpdated", date)
\* json_data["CompetitorID"] = ...; ["DateAdded"] = ...; ["LastUpdated"] = ...
AddSystemFields(d, cid, date) ==
    Put(Put(Put(d, "CompetitorID", cid), "DateAdded", date), "LastUpdated", date)

\* if json_data.get("Type") not in COMPETITOR_TYPES: json_data["Type"] = "N/A"
InTypes(v) == v[1] = "str" /\ v[2] \in COMPETITOR_TYPES
\* variant of ValidateType: any string is taken for a member of the enum
ValidateTypeAnyString(d) ==
    IF Get(d, "Type", JNull)[1] = "str" THEN d ELSE Put(d, "Type", JStr("N/A"))
ValidateType(d) ==
    IF InTypes(Get(d, "Type", JNull)) THEN d ELSE Put(d, "Type", JStr("N/A"))

\* variant of IsValidSource: the description is not required
IsValidSourceUrlOnly(e) == IsDict(e) /\ HasKey(e, "url")
\* isinstance(source, dict) and "url" in source and "description" in source
IsValidSource(e) == IsDict(e) /\ HasKey(e, "url") /\ HasKey(e, "description")
NormalizeSources(d) ==
    LET sources == Get(d, "Research_Sources", JList(<<>>))
    IN IF ~IsList(sources)
       THEN Put(d, "Research_Sources", JList(<<>>))
       ELSE Put(d, "Research_Sources", JList(SelectSeq(sources[2], IsValidSource)))

NormalizeRecord(d, cid, date) ==
    NormalizeSources(ValidateType(AddSystemFields(d, cid, date)))

Touch(t, suffix, io) ==
    IF io = "open_fails" THEN t ELSE [t EXCEPT !.touched = @ \cup {suffix}]

\* except Exception as e: (the outer handler of the attempt loop)
OnUnexpectedError(t, fsys, ioFatal) ==
    IF t.attempt = max_retries - 1
    THEN LET fs2 == WriteFile(fsys, <<t.path, ".fatal.txt">>,
                              TextFile("Fatal error during research"), ioFatal)
             t2 == [Touch(t, ".fatal.txt", ioFatal) EXCEPT !.exhausted = TRUE]
         IN IF ioFatal = "ok"
            THEN [t |-> ReturnNone(t2), fs |-> fs2]
            ELSE [t |-> TenacityOnException(t2), fs |-> fs2]
    ELSE [t |-> SetPc(t, "sleep"), fs |-> fsys]

\* except json.JSONDecodeError as json_err: (inside the outer try)
OnInvalidJson(t, fsys, response_text, ioErr, ioFatal) ==
    IF t.attempt = max_retries - 1
    THEN LET fs2 == WriteFile(fsys, <<t.path, ".error.txt">>,
                              TextFile(response_text), ioErr)
             t2 == [Touch(t, ".error.txt", ioErr) EXCEPT !.exhausted = TRUE]
         IN IF ioErr = "ok"
            THEN [t |-> ReturnNone(t2), fs |-> fs2]
            ELSE OnUnexpectedError(t2, fs2, ioFatal)
    ELSE [t |-> SetPc(t, "sleep"), fs |-> fsys]

\* One attempt, from the resumption of the model call to the next await or return.
ResearchAttempt(t0, fsys, out, ioRec, ioErr, ioFatal) ==
    IF out = ModelError
    THEN OnUnexpectedError([t0 EXCEPT !.lastFail = "error"], fsys, ioFatal)
    ELSE LET t == [t0 EXCEPT !.lastText = out]
             json_data == JsonLoads(out)
         IN IF json_data = Invalid
            THEN OnInvalidJson([t EXCEPT !.lastFail = "invalid"], fsys, out, ioErr, ioFatal)
            ELSE IF ~IsDict(json_data)
            THEN OnUnexpectedError([t EXCEPT !.lastFail = "error"], fsys, ioFatal)
            ELSE LET rec == NormalizeRecord(json_data, t.cid, t.cdate)
                     fs2 == WriteFile(fsys, <<t.path, "">>,
                                      JsonFile(rec, "research", json_data), ioRec)
                     t2 == Touch(t, "", ioRec)
                 IN IF ioRec = "ok"
                    THEN [t |-> ReturnPath([t2 EXCEPT !.persisted = TRUE]), fs |-> fs2]
                    ELSE OnUnexpectedError([t2 EXCEPT !.lastFail = "error"], fs2, ioFatal)

\* The file operations an attempt reaches, each with its possible outcomes.
LastAttempt(t) == t.attempt = max_retries - 1
RecordIo(out) ==
    IF out # ModelError /\ IsDict(JsonLoads(out)) THEN IoOutcomes ELSE {"ok"}
ErrorIo(t, out) ==
    IF out # ModelError /\ JsonLoads(out) = Invalid /\ LastAttempt(t)
    THEN IoOutcomes ELSE {"ok"}
FatalIo(t, out, ioRec, ioErr) ==
    IF LastAttempt(t) /\ (\/ out = ModelError
                          \/ JsonLoads(out) = Invalid /\ ioErr # "ok"
                          \/ JsonLoads(out) # Invalid /\ ~IsDict(JsonLoads(out))
                          \/ IsDict(JsonLoads(out)) /\ ioRec # "ok")
    THEN IoOutcomes ELSE {"ok"}

\* The body up to its first await: makedirs, uuid, date, prompt, first request.
ResearchBody(self, t, ioDir) ==
    IF ioDir # "ok"
    THEN TenacityOnException(t)
    ELSE IssueRequest([t EXCEPT !.cid = Uuid4(self), !.cdate = CurrentDate, !.attempt = 0])

NoFirst == [id |-> JNull, date |-> JNull]
FirstAfter(fsys) ==
    [p \in RecordPaths |->
        IF first[p] = NoFirst /\ fsys[<<p, "">>].kind = "json"
        THEN [id |-> Get(fsys[<<p, "">>].data, "CompetitorID", JNull),
              date |-> Get(fsys[<<p, "">>].data, "DateAdded", JNull)]
        ELSE first[p]]

DirOutcomes == {"ok", "fails"}

\* the event loop runs the coroutine for the first time
ResearchStart(i) ==
    /\ tasks[i].kind = "research" /\ tasks[i].pc = "created"
    /\ \E ioDir \in DirOutcomes :
           tasks' = [tasks EXCEPT ![i] = History(ResearchBody(i, tasks[i], ioDir))]
    /\ UNCHANGED <<mode, names, mainPc, result, fs, today, first, ops, call, notion>>

\* tenacity's wait is over: it calls the body again
ResearchRetry(i) ==
    /\ tasks[i].kind = "research" /\ tasks[i].pc = "tenacity_wait"
    /\ \E ioDir \in DirOutcomes :
           tasks' = [tasks EXCEPT ![i] = History(ResearchBody(i, tasks[i], ioDir))]
    /\ UNCHANGED <<mode, names, mainPc, result, fs, today, first, ops, call, notion>>

\* await model.generate_content_async(...) resumes
ResearchModelReturns(i) ==
    /\ tasks[i].kind = "research" /\ tasks[i].pc = "await_model"
    /\ \E out \in ResearchTexts \cup {ModelError} :
       \E ioRec \in RecordIo(out) :
       \E ioErr \in ErrorIo(tasks[i], out) :
       \E ioFatal \in FatalIo(tasks[i], out, ioRec, ioErr) :
           LET r == ResearchAttempt(tasks[i], fs, out, ioRec, ioErr, ioFatal)
           IN /\ tasks' = [tasks EXCEPT ![i] = History(r.t)]
              /\ fs' = r.fs
              /\ first' = FirstAfter(r.fs)
    /\ UNCHANGED <<mode, names, mainPc, result, today, ops, call, notion>>

\* await asyncio.sleep(5 * (attempt + 1)) is over: next iteration of the loop
ResearchSleepDone(i) ==
    /\ tasks[i].kind = "research" /\ tasks[i].pc = "sleep"
    /\ tasks' = [tasks EXCEPT ![i] = History(IssueRequest([tasks[i] EXCEPT !.attempt = @ + 1]))]
    /\ UNCHANGED <<mode, names, mainPc, result, fs, today, first, ops, call, notion>>

(********************* research_competitors_async **************************)
NameLists == UNION {[1..n -> Names] : n \in 0..MaxNames}

\* os.makedirs(output_folder_path) and the creation of the coroutines
FanOutCall ==
    /\ mode = "fanout" /\ mainPc = "init"
    /\ \E ioDir \in DirOutcomes :
           IF ioDir = "ok"
           THEN /\ tasks' = [i \in TaskIds |->
                                IF i <= Len(names) THEN NewResearchTask(names[i])
                                ELSE tasks[i]]
                /\ mainPc' = "gather"
           ELSE /\ mainPc' = "raised"
                /\ UNCHANGED tasks
    /\ UNCHANGED <<mode, names, result, fs, today, first, ops, call, notion>>

IsPath(r) == r.tag = "path"
\* variant of SuccessfulPaths: the paths in the reverse of the argument order
SuccessfulPathsReversed(results_paths) ==
    LET kept == SelectSeq(results_paths, IsPath)
    IN [k \in 1..Len(kept) |-> kept[Len(kept) + 1 - k].path]
\* results_paths = await asyncio.gather(*tasks); [path for path in ... if path is not None]
SuccessfulPaths(results_paths) ==
    LET kept == SelectSeq(results_paths, IsPath)
    IN [k \in 1..Len(kept) |-> kept[k].path]

\* gather: the first exception of a task is raised to the awaiter; otherwise the
\* results of all tasks, in the order of the arguments
FanOutGather ==
    /\ mode = "fanout" /\ mainPc = "gather"
    /\ IF \E i \in 1..Len(names) : tasks[i].pc = "raised"
       THEN /\ mainPc' = "raised"
            /\ UNCHANGED result
       ELSE /\ \A i \in 1..Len(names) : tasks[i].pc = "done"
            /\ result' = SuccessfulPaths([i \in 1..Len(names) |-> tasks[i].ret])
            /\ mainPc' = "done"
    /\ UNCHANGED <<mode, names, tasks, fs, today, first, ops, call, notion>>

InitFanOut ==
    /\ mode = "fanout"
    /\ names \in NameLists
    /\ mainPc = "init"
    /\ result = <<>>
    /\ tasks = [i \in TaskIds |-> IdleTask]
    /\ fs = [k \in FileKeys |-> Absent]
    /\ today = 1
    /\ first = [p \in RecordPaths |-> NoFirst]
    /\ ops = 0
    /\ call = NoCall
    /\ notion = EmptyStore

Init == InitFanOut

Next ==
    \/ FanOutCall
    \/ FanOutGather
    \/ \E i \in TaskIds : ResearchStart(i)
    \/ \E i \in TaskIds : ResearchRetry(i)
    \/ \E i \in TaskIds : ResearchModelReturns(i)
    \/ \E i \in TaskIds : ResearchSleepDone(i)

Spec == Init /\ [][Next]_vars

(************* a direct call of research_competitor_to_json ****************)
\* result = await research_competitor_to_json(name, folder, context)
TaskCall ==
    /\ mode = "task" /\ mainPc = "init"
    /\ tasks' = [tasks EXCEPT ![1] = NewResearchTask(names[1])]
    /\ mainPc' = "await"
    /\ UNCHANGED <<mode, names, result, fs, today, first, ops, call, notion>>

\* the caller resumes with the task's return value or its exception
TaskReturn ==
    /\ mode = "task" /\ mainPc = "await"
    /\ tasks[1].pc \in {"done", "raised"}
    /\ mainPc' = IF tasks[1].pc = "raised" THEN "raised" ELSE "done"
    /\ result' = <<tasks[1].ret>>
    /\ UNCHANGED <<mode, names, tasks, fs, today, first, ops, call, notion>>

InitTask ==
    /\ mode = "task"
    /\ names \in [1..1 -> Names]
    /\ mainPc = "init"
    /\ result = <<>>
    /\ tasks = [i \in TaskIds |-> IdleTask]
    /\ fs = [k \in FileKeys |-> Absent]
    /\ today = 1
    /\ first = [p \in RecordPaths |-> NoFirst]
    /\ ops = 0
    /\ call = NoCall
    /\ notion = EmptyStore

NextTask ==
    \/ TaskCall
    \/ TaskReturn
    \/ ResearchStart(1)
    \/ ResearchRetry(1)
    \/ ResearchModelReturns(1)
    \/ ResearchSleepDone(1)

SpecTask == InitTask /\ [][NextTask]_vars

\* The event loop resumes every coroutine that is ready, every model call and
\* every sleep ends.
FairTask ==
    /\ SpecTask
    /\ WF_vars(TaskCall) /\ WF_vars(TaskReturn)
    /\ WF_vars(ResearchStart(1)) /\ WF_vars(ResearchRetry(1))
    /\ WF_vars(ResearchModelReturns(1)) /\ WF_vars(ResearchSleepDone(1))

(******************* update_single_competitor_async ************************)
Summary == JStr("what changed")
Payload(updated) ==
    JDict([k \in {"updated_competitor_data", "change_summary"} |->
              IF k = "change_summary" THEN Summary ELSE updated])

\* json.loads(response_text) for the responses to the update prompt, which
\* carries the previous record (old_data)
UpdateLoads(text, old) ==
    CASE text = "garbage" -> Invalid
      [] text = "[]" -> JList(<<>>)
      [] text = "no_summary" -> JDict([k \in {"updated_competitor_data"} |-> old])
      [] text = "empty_update" -> Payload(JDict(EmptyMap))
      [] text = "list_update" -> Payload(JList(<<JNum(1)>>))
      [] text = "echo" -> Payload(old)
      [] text = "retyped" -> Payload(Put(old, "Type", JStr("Indirect")))
      [] text = "new_id" -> Payload(Put(old, "CompetitorID", JStr("model-id")))
      [] text = "no_date" -> Payload(WithoutKey(old, "DateAdded"))
      [] text = "extra_key" -> Payload(Put(old, "Foo", JStr("bar")))
      [] text = "no_update" -> JDict([k \in {"change_summary"} |-> Summary])
      [] text = "empty_summary" ->
             JDict([k \in {"updated_competitor_data", "change_summary"} |->
                       IF k = "change_summary" THEN JStr("") ELSE old])
      [] text = "stale_date" -> Payload(Put(old, "LastUpdated", JStr("model-date")))
      [] OTHER -> Invalid

UpdateTexts ==
    IF mode = "main" THEN {"garbage", "no_summary", "echo", "retyped"}
    ELSE IF mode = "update"
    THEN {"garbage", "[]", "no_summary", "no_update", "empty_summary", "empty_update",
          "list_update", "echo", "retyped", "stale_date"}
    ELSE {"garbage", "[]", "no_summary", "empty_update", "list_update", "echo", "retyped",
          "new_id", "no_date", "extra_key"}

\* the coroutine object update_single_competitor_async(json_file_path, context)
NewUpdateTask(path) ==
    [IdleTask EXCEPT !.kind = "update", !.path = path, !.pc = "created",
                     !.before = fs[<<path, "">>]]

ReadOutcomes == {"ok", "denied"}

\* From the call to the first await: read and parse the file, build the prompt,
\* send the first request.  Only FileNotFoundError and JSONDecodeError are caught.
\* old_data.get(...) on JSON content that is not an object is an AttributeError,
\* outside every try.
UpdateBody(t, fsys, ioRead) ==
    LET file == fsys[<<t.path, "">>]
    IN IF file.kind = "absent" THEN ReturnNone(t)
       ELSE IF ioRead # "ok" THEN SetPc(t, "raised")
       ELSE IF file.kind # "json" THEN ReturnNone(t)
       ELSE IF ~IsDict(file.data) THEN SetPc(t, "raised")
       ELSE IssueRequest([t EXCEPT !.old = file.data, !.attempt = 0,
                                   !.name = Get(file.data, "Competitor Name",
                                                JStr("Unknown Competitor"))])

\* variant of OnUpdateFailure: the first failure already gives up
OnUpdateFailureNoRetry(t, fsys) == [t |-> ReturnNone(t), fs |-> fsys]
\* except (json.JSONDecodeError, ValueError, Exception) as e:
OnUpdateFailure(t, fsys) ==
    IF t.attempt = update_max_retries - 1
    THEN [t |-> ReturnNone(t), fs |-> fsys]
    ELSE [t |-> SetPc(t, "sleep"), fs |-> fsys]

Failed(t, cause) == [t EXCEPT !.lastFail = cause]

\* variant of SetLastUpdated: a date the model supplied is kept
SetLastUpdatedIfMissing(updated_data, date) ==
    IF HasKey(updated_data, "LastUpdated") THEN updated_data
    ELSE Put(updated_data, "LastUpdated", date)
\* updated_data["LastUpdated"] = datetime.now().strftime("%Y-%m-%d")
SetLastUpdated(updated_data, date) == Put(updated_data, "LastUpdated", date)

\* One attempt, from the resumption of the model call to the next await or return.
UpdateAttempt(t0, fsys, out, ioRec) ==
    LET t == [t0 EXCEPT !.lastText = out]
    IN IF out = ModelError THEN OnUpdateFailure(Failed(t, "error"), fsys)
    ELSE LET parsed_response == UpdateLoads(out, t.old)
         IN IF parsed_response = Invalid
            THEN OnUpdateFailure(Failed(t, "invalid"), fsys)
            ELSE IF ~IsDict(parsed_response)
            THEN OnUpdateFailure(Failed(t, "error"), fsys)
            ELSE LET updated_data == Get(parsed_response, "updated_competitor_data", JNull)
                     change_summary == Get(parsed_response, "change_summary", JNull)
                 IN IF ~Truthy(updated_data) \/ ~Truthy(change_summary)
                    THEN OnUpdateFailure(Failed(t, "missing"), fsys)
                    ELSE IF ~IsDict(updated_data)
                    THEN OnUpdateFailure(Failed(t, "error"), fsys)
                    ELSE LET rec == SetLastUpdated(updated_data, CurrentDate)
                             fs2 == WriteFile(fsys, <<t.path, "">>,
                                              JsonFile(rec, "update", updated_data), ioRec)
                         IN IF ioRec = "ok"
                            THEN [t |-> [t EXCEPT !.pc = "done", !.persisted = TRUE,
                                            !.ret = RetPair(t.path,
                                                            SummaryLine(t.name, change_summary))],
                                  fs |-> fs2]
                            ELSE OnUpdateFailure(Failed(t, "error"), fs2)

UpdateRecordIo(t, out) ==
    IF out # ModelError /\ IsDict(UpdateLoads(out, t.old)) THEN IoOutcomes ELSE {"ok"}

\* In main_update the event loop first runs the first step of every task in the
\* order of their creation (the discovery task, then the update tasks in the order
\* of gather's arguments); awaited calls resume after that.
StartsInTurn(i) ==
    mode = "main" => (call.pc # "called" /\ \A j \in 1..(i - 1) : tasks[j].pc # "created")
AllStarted ==
    mode = "main" => (call.pc # "called" /\ \A j \in TaskIds : tasks[j].pc # "created")

\* the event loop runs the coroutine for the first time
UpdateStart(i) ==
    /\ tasks[i].kind = "update" /\ tasks[i].pc = "created"
    /\ StartsInTurn(i)
    /\ \E ioRead \in ReadOutcomes :
           tasks' = [tasks EXCEPT ![i] = History(UpdateBody(tasks[i], fs, ioRead))]
    /\ UNCHANGED <<mode, names, mainPc, result, fs, today, first, ops, call, notion>>

\* await model.generate_content_async(...) resumes
UpdateModelReturns(i) ==
    /\ tasks[i].kind = "update" /\ tasks[i].pc = "await_model"
    /\ AllStarted
    /\ \E out \in UpdateTexts \cup {ModelError} :
       \E ioRec \in UpdateRecordIo(tasks[i], out) :
           LET r == UpdateAttempt(tasks[i], fs, out, ioRec)
           IN /\ tasks' = [tasks EXCEPT ![i] = History(r.t)]
              /\ fs' = r.fs
              /\ first' = FirstAfter(r.fs)
    /\ UNCHANGED <<mode, names, mainPc, result, today, ops, call, notion>>

\* await asyncio.sleep(5) is over: next iteration of the loop
UpdateSleepDone(i) ==
    /\ tasks[i].kind = "update" /\ tasks[i].pc = "sleep"
    /\ tasks' = [tasks EXCEPT ![i] = History(IssueRequest([tasks[i] EXCEPT !.attempt = @ + 1]))]
    /\ UNCHANGED <<mode, names, mainPc, result, fs, today, first, ops, call, notion>>

(************ one competitor over successive research and update ***********)
LifeName == <<"a", " ", "b">>

\* research_competitor_to_json(name, folder, context) is called
LifeResearch ==
    /\ mode = "life" /\ mainPc = "init" /\ ops < MaxOps
    /\ tasks' = [tasks EXCEPT ![1] = NewResearchTask(names[1])]
    /\ mainPc' = "await"
    /\ ops' = ops + 1
    /\ UNCHANGED <<mode, names, result, fs, today, first, call, notion>>

\* update_single_competitor_async(path, context) is called
LifeUpdate ==
    /\ mode = "life" /\ mainPc = "init" /\ ops < MaxOps
    /\ tasks' = [tasks EXCEPT ![1] = NewUpdateTask(OutputFilePath(names[1]))]
    /\ mainPc' = "await"
    /\ ops' = ops + 1
    /\ UNCHANGED <<mode, names, result, fs, today, first, call, notion>>

\* the caller resumes with the return value, or dies of the exception
LifeCollect ==
    /\ mode = "life" /\ mainPc = "await"
    /\ tasks[1].pc \in {"done", "raised"}
    /\ mainPc' = IF tasks[1].pc = "raised" THEN "raised" ELSE "init"
    /\ result' = <<tasks[1].ret>>
    /\ UNCHANGED <<mode, names, tasks, fs, today, first, ops, call, notion>>

\* midnight passes
Tick ==
    /\ mode \in {"life", "update"} /\ today < MaxDay
    /\ today' = today + 1
    /\ UNCHANGED <<mode, names, mainPc, result, tasks, fs, first, ops, call, notion>>

InitLife ==
    /\ mode = "life"
    /\ names = <<LifeName>>
    /\ mainPc = "init"
    /\ result = <<>>
    /\ tasks = [i \in TaskIds |-> IdleTask]
    /\ fs = [k \in FileKeys |-> Absent]
    /\ today = 1
    /\ first = [p \in RecordPaths |-> NoFirst]
    /\ ops = 0
    /\ call = NoCall
    /\ notion = EmptyStore

NextLife ==
    \/ LifeResearch
    \/ LifeUpdate
    \/ LifeCollect
    \/ Tick
    \/ ResearchStart(1)
    \/ ResearchRetry(1)
    \/ ResearchModelReturns(1)
    \/ ResearchSleepDone(1)
    \/ UpdateStart(1)
    \/ UpdateModelReturns(1)
    \/ UpdateSleepDone(1)

SpecLife == InitLife /\ [][NextLife]_vars

(********** a direct call of update_single_competitor_async ****************)
\* what the record file can hold at the call: nothing, a research record (with or
\* without a name), text that is not JSON, JSON that is not an object
StoredRecord == NormalizeRecord(FullRecord, <<"uuid", 1>>, <<"date", 1>>)
StoredFiles ==
    {Absent, Partial,
     JsonFile(StoredRecord, "research", FullRecord),
     JsonFile(WithoutKey(StoredRecord, "Competitor Name"), "research", FullRecord),
     JsonFile(JList(<<>>), "other", JNull)}

\* result = await update_single_competitor_async(json_file_path, context)
UpdateCall ==
    /\ mode = "update" /\ mainPc = "init"
    /\ tasks' = [tasks EXCEPT ![1] = NewUpdateTask(OutputFilePath(names[1]))]
    /\ mainPc' = "await"
    /\ UNCHANGED <<mode, names, result, fs, today, first, ops, call, notion>>

\* the caller resumes with the return value or the exception
UpdateReturn ==
    /\ mode = "update" /\ mainPc = "await"
    /\ tasks[1].pc \in {"done", "raised"}
    /\ mainPc' = IF tasks[1].pc = "raised" THEN "raised" ELSE "done"
    /\ result' = <<tasks[1].ret>>
    /\ UNCHANGED <<mode, names, tasks, fs, today, first, ops, call, notion>>

InitUpdate ==
    /\ mode = "update"
    /\ names = <<LifeName>>
    /\ mainPc = "init"
    /\ result = <<>>
    /\ tasks = [i \in TaskIds |-> IdleTask]
    /\ \E file \in StoredFiles :
           fs = [k \in FileKeys |->
                    IF k = <<OutputFilePath(LifeName), "">> THEN file ELSE Absent]
    /\ today = 1
    /\ first = [p \in RecordPaths |-> NoFirst]
    /\ ops = 0
    /\ call = NoCall
    /\ notion = EmptyStore

NextUpdate ==
    \/ UpdateCall
    \/ UpdateReturn
    \/ Tick
    \/ UpdateStart(1)
    \/ UpdateModelReturns(1)
    \/ UpdateSleepDone(1)

SpecUpdate == InitUpdate /\ [][NextUpdate]_vars

(******************** discover_new_competitors_async ***********************)
KnownName == <<"a", " ", "b">>
KnownNameUpper == <<"A", " ", "B">>
NewName == <<"z">>
NamesPayload(list) == JDict([k \in {"new_competitors"} |-> list])

\* json.loads(response_text) for the responses to the discovery prompt
DiscoverLoads(text) ==
    CASE text = "garbage" -> Invalid
      [] text = "[]" -> JList(<<>>)
      [] text = "no_key" -> JDict(EmptyMap)
      [] text = "not_list" -> NamesPayload(JText(NewName))
      [] text = "none_found" -> NamesPayload(JList(<<>>))
      [] text = "new_only" -> NamesPayload(JList(<<JText(NewName)>>))
      [] text = "known" -> NamesPayload(JList(<<JText(KnownName), JText(NewName)>>))
      [] text = "known_upper" -> NamesPayload(JList(<<JText(KnownNameUpper)>>))
      [] text = "numbers" -> NamesPayload(JList(<<JNum(7)>>))
      [] OTHER -> Invalid

DiscoverTexts ==
    {"garbage", "[]", "no_key", "not_list", "none_found", "new_only", "known",
     "known_upper", "numbers"}

\* variant of DiscoverResult: without the isinstance check the value is returned as it is
DiscoverResultUnchecked(out) ==
    IF out = ModelError THEN <<>>
    ELSE LET parsed_response == DiscoverLoads(out)
         IN IF parsed_response = Invalid \/ ~IsDict(parsed_response) THEN <<>>
            ELSE Get(parsed_response, "new_competitors", JList(<<>>))[2]
\* try: ... return new_competitors / except (json.JSONDecodeError, Exception): return []
DiscoverResult(out) ==
    IF out = ModelError THEN <<>>
    ELSE LET parsed_response == DiscoverLoads(out)
         IN IF parsed_response = Invalid \/ ~IsDict(parsed_response) THEN <<>>
            ELSE LET new_competitors == Get(parsed_response, "new_competitors", JList(<<>>))
                 IN IF ~IsList(new_competitors) THEN <<>> ELSE new_competitors[2]

\* the coroutine runs to its await: prompt built, request sent
DiscoverStart ==
    /\ call.fn = "discover" /\ call.pc = "called"
    /\ call' = [call EXCEPT !.pc = "await_model", !.requests = @ + 1]
    /\ UNCHANGED <<mode, names, mainPc, result, tasks, fs, today, first, ops, notion>>

\* await model.generate_content_async(...) resumes
DiscoverModelReturns ==
    /\ call.fn = "discover" /\ call.pc = "await_model"
    /\ AllStarted
    /\ \E out \in DiscoverTexts \cup {ModelError} :
           call' = [call EXCEPT !.pc = "returned", !.out = DiscoverResult(out),
                                !.text = out]
    /\ UNCHANGED <<mode, names, mainPc, result, tasks, fs, today, first, ops, notion>>

(****************** generate_top_changes_summary_async *********************)
NoSignificantUpdates == "No significant competitor updates found in this run."
DigestError == "Error: Could not generate the final summary."
DigestTexts == {"top changes"}

\* variant of TopChangesBody: the request is sent whatever the list holds
TopChangesAlwaysAsks(c) == [c EXCEPT !.pc = "await_model", !.requests = @ + 1]
\* From the call to the first await or return: `if not all_changes: return ...`,
\* otherwise the prompt is built and the request sent.
TopChangesBody(c) ==
    IF c.arg = <<>>
    THEN [c EXCEPT !.pc = "returned", !.out = NoSignificantUpdates]
    ELSE [c EXCEPT !.pc = "await_model", !.requests = @ + 1]
\* return response.text / except Exception: return "Error: ..."
TopChangesResult(c, out) ==
    [c EXCEPT !.pc = "returned", !.text = out,
              !.out = IF out = ModelError THEN DigestError ELSE out]

\* the coroutine runs to its first await or to its return
DigestStart ==
    /\ mode = "call" /\ call.fn = "digest" /\ call.pc = "called"
    /\ call' = TopChangesBody(call)
    /\ UNCHANGED <<mode, names, mainPc, result, tasks, fs, today, first, ops, notion>>

\* await model.generate_content_async(...) resumes
DigestModelReturns ==
    /\ mode = "call" /\ call.fn = "digest" /\ call.pc = "await_model"
    /\ \E out \in DigestTexts \cup {ModelError} : call' = TopChangesResult(call, out)
    /\ UNCHANGED <<mode, names, mainPc, result, tasks, fs, today, first, ops, notion>>

(******************************* main_update *******************************)
\* summary_call is the call of generate_top_changes_summary_async
MainResult ==
    [returned |-> "", update_results |-> <<>>, digest |-> "", populated |-> FALSE,
     published |-> FALSE, summary_call |-> NoCall,
     config |-> [token |-> TRUE, database_id |-> TRUE, page_id |-> TRUE,
                 context |-> TRUE, folder |-> TRUE]]

\* what a record file of the folder can hold when main_update starts
MainFiles ==
    {Absent, Partial, JsonFile(StoredRecord, "research", FullRecord),
     JsonFile(JList(<<>>), "other", JNull)}
ListedPaths(fsys) == {p \in RecordPaths : fsys[<<p, "">>].kind # "absent"}
\* os.listdir(OUTPUT_FOLDER): the .json files in any order
Listings(fsys) ==
    {l \in [1..Cardinality(ListedPaths(fsys)) -> ListedPaths(fsys)] :
        \A i, j \in DOMAIN l : i # j => l[i] # l[j]}
\* f.replace('.json', '').replace('_', ' ')
ExistingName(f) ==
    LET stem == SelectSeq(f, LAMBDA c : c # ".json")
    IN [i \in 1..Len(stem) |-> IF stem[i] = "_" THEN " " ELSE stem[i]]

\* What the environment holds: the three Notion settings, the company context,
\* and whether the output folder exists.
Configs ==
    [token : BOOLEAN, database_id : BOOLEAN, page_id : BOOLEAN, context : BOOLEAN,
     folder : BOOLEAN]
\* variant of VerifyConfiguration: the company context is not looked at
VerifyWithoutContext(config) ==
    IF ~(config.token /\ config.database_id /\ config.page_id) THEN "missing_env"
    ELSE IF ~config.folder THEN "missing_folder"
    ELSE "ok"
\* --- 1. Verify Configuration ---: the three returns of lines 66-77
VerifyConfiguration(config) ==
    IF ~(config.token /\ config.database_id /\ config.page_id) THEN "missing_env"
    ELSE IF ~config.context THEN "missing_context"
    ELSE IF ~config.folder THEN "missing_folder"
    ELSE "ok"

\* From the call to `await asyncio.gather(*update_tasks)`: the configuration is
\* verified, the folder listed, the update coroutines and the discovery task made.
MainStart ==
    /\ mode = "main" /\ mainPc = "init"
    /\ LET verdict == VerifyConfiguration(result.config)
       IN IF verdict # "ok"
            THEN /\ mainPc' = "done"
                 /\ result' = [result EXCEPT !.returned = verdict]
                 /\ UNCHANGED <<names, tasks, call>>
            ELSE \E json_files \in Listings(fs) :
                 /\ names' = json_files
                 /\ tasks' = [i \in TaskIds |->
                                 IF i <= Len(json_files) THEN NewUpdateTask(json_files[i])
                                 ELSE IdleTask]
                 /\ call' = NewCall("discover",
                                    [i \in 1..Len(json_files) |-> ExistingName(json_files[i])])
                 /\ mainPc' = "gather"
                 /\ UNCHANGED result
    /\ UNCHANGED <<mode, fs, today, first, ops, notion>>

\* asyncio.run(main_update()) when main_update raises: the tasks still pending are
\* cancelled (CancelledError is not an Exception, no handler of a task catches it)
Cancelled(t) == IF t.kind # "none" /\ t.pc \notin {"done", "raised"} THEN SetPc(t, "cancelled") ELSE t
CancelCall(c) == IF c.pc \in {"called", "await_model"} THEN [c EXCEPT !.pc = "cancelled"] ELSE c

\* update_results = await asyncio.gather(*update_tasks): the first exception of a
\* task is raised at once, otherwise the results of all tasks
MainGather ==
    /\ mode = "main" /\ mainPc = "gather"
    /\ AllStarted
    /\ IF \E i \in 1..Len(names) : tasks[i].pc = "raised"
       THEN /\ mainPc' = "raised"
            /\ tasks' = [i \in TaskIds |-> Cancelled(tasks[i])]
            /\ call' = CancelCall(call)
            /\ UNCHANGED result
       ELSE /\ \A i \in 1..Len(names) : tasks[i].pc = "done"
            /\ result' = [result EXCEPT
                              !.update_results = [i \in 1..Len(names) |-> tasks[i].ret]]
            /\ mainPc' = "await_discovery"
            /\ UNCHANGED <<tasks, call>>
    /\ UNCHANGED <<mode, names, fs, today, first, ops, notion>>

IsPair(r) == r.tag = "pair"
\* successful_updates = [res for res in update_results if res is not None]
SuccessfulUpdates(update_results) == SelectSeq(update_results, IsPair)
\* change_summaries = [summary for _, summary in successful_updates]
ChangeSummaries(successful_updates) ==
    [k \in 1..Len(successful_updates) |-> successful_updates[k].summary]

\* variant of DiscoveryJoined: the discovery task is not awaited
DiscoveryNotAwaited(c) == c.fn = "discover"
\* `await discovery_task` resumes when the task has returned
DiscoveryJoined(c) == c.fn = "discover" /\ c.pc = "returned"

\* newly_discovered_competitors = await discovery_task, then lines 110-121: without
\* change summaries the digest is the fixed sentence, otherwise
\* generate_top_changes_summary_async is called and runs to its await
MainDiscoveryJoined ==
    /\ mode = "main" /\ mainPc = "await_discovery"
    /\ DiscoveryJoined(call)
    /\ LET change_summaries == ChangeSummaries(SuccessfulUpdates(result.update_results))
       IN IF change_summaries = <<>>
          THEN /\ result' = [result EXCEPT !.digest = NoSignificantUpdates]
               /\ mainPc' = "populate"
          ELSE LET c == TopChangesBody(NewCall("digest", change_summaries))
               IN /\ result' = [result EXCEPT
                                    !.summary_call = c,
                                    !.digest = IF c.pc = "returned" THEN c.out ELSE @]
                  /\ mainPc' = IF c.pc = "returned" THEN "populate" ELSE "await_digest"
    /\ UNCHANGED <<mode, names, tasks, fs, today, first, ops, call, notion>>

\* generate_top_changes_summary_async resumes from its model call: the text, or
\* the error sentence of its handler
MainDigestReturns ==
    /\ mode = "main" /\ mainPc = "await_digest"
    /\ \E out \in DigestTexts \cup {ModelError} :
           LET c == TopChangesResult(result.summary_call, out)
           IN result' = [result EXCEPT !.summary_call = c, !.digest = c.out]
    /\ mainPc' = "populate"
    /\ UNCHANGED <<mode, names, tasks, fs, today, first, ops, call, notion>>

\* if successful_updates: await populate_notion_db_from_folder(...)
MainPopulate ==
    /\ mode = "main" /\ mainPc = "populate"
    /\ result' = [result EXCEPT
                      !.populated = SuccessfulUpdates(result.update_results) # <<>>]
    /\ mainPc' = "append"
    /\ UNCHANGED <<mode, names, tasks, fs, today, first, ops, call, notion>>

\* The appends to the summary page; "\n- ".join(newly_discovered_competitors) is
\* outside every try and raises TypeError on an entry that is not a string.
MainAppend ==
    /\ mode = "main" /\ mainPc = "append"
    /\ result' = [result EXCEPT !.published = TRUE]
    /\ mainPc' = IF \E k \in 1..Len(call.out) : ~IsText(call.out[k])
                 THEN "raised" ELSE "done"
    /\ UNCHANGED <<mode, names, tasks, fs, today, first, ops, call, notion>>

InitMain ==
    /\ mode = "main"
    /\ names = <<>>
    /\ mainPc = "init"
    /\ result \in {[MainResult EXCEPT !.config = config] : config \in Configs}
    /\ tasks = [i \in TaskIds |-> IdleTask]
    /\ fs \in {f \in [FileKeys -> MainFiles] :
                 /\ \A k \in FileKeys : k[2] # "" => f[k] = Absent
                 /\ Cardinality(ListedPaths(f)) <= MaxNames
                 /\ ~result.config.folder => ListedPaths(f) = {}}
    /\ today = 1
    /\ first = [p \in RecordPaths |-> NoFirst]
    /\ ops = 0
    /\ call = NoCall
    /\ notion = EmptyStore

NextMain ==
    \/ MainStart
    \/ MainGather
    \/ MainDiscoveryJoined
    \/ MainDigestReturns
    \/ MainPopulate
    \/ MainAppend
    \/ DiscoverStart
    \/ DiscoverModelReturns
    \/ \E i \in TaskIds : UpdateStart(i)
    \/ \E i \in TaskIds : UpdateModelReturns(i)
    \/ \E i \in TaskIds : UpdateSleepDone(i)

SpecMain == InitMain /\ [][NextMain]_vars

(******************** dedupe_sources_preserve_order ************************)
Source1b == JDict([url |-> JStr("u1"), description |-> JStr("d1 again")])
EmptyUrl == JDict([url |-> JStr(""), description |-> JStr("d6")])
NullUrl == JDict([url |-> JNull, description |-> JStr("d7")])

\* for src in sources or []: ... seen.add(url); unique.append(src)
RECURSIVE DedupeLoop(_, _, _)
DedupeLoop(rest, seen, unique) ==
    IF rest = <<>> THEN unique
    ELSE LET src == Head(rest)
             url == IF IsDict(src) THEN Get(src, "url", JNull) ELSE JNull
         IN IF IsDict(src) /\ Truthy(url) /\ url \notin seen
            THEN DedupeLoop(Tail(rest), seen \cup {url}, Append(unique, src))
            ELSE DedupeLoop(Tail(rest), seen, unique)

\* variant of dedupe_sources_preserve_order: the loop starts at the second entry
DedupeSkippingFirst(sources) ==
    IF sources = <<>> THEN <<>> ELSE DedupeLoop(Tail(sources), {}, <<>>)
\* variant of dedupe_sources_preserve_order: seen is never added to
DedupeForgettingSeen(sources) ==
    SelectSeq(sources, LAMBDA src : IsDict(src) /\ Truthy(Get(src, "url", JNull)))
dedupe_sources_preserve_order(sources) == DedupeLoop(sources, {}, <<>>)

(********************* map_data_to_notion_properties ***********************)
TITLE_FIELD_NAME == "Competitor Name"
NumberFields == {"CompanySize_Employees", "YearFounded", "Pricing_LowestPaidTier_USD",
                 "Pricing_KeyTier_USD", "Funding_Total_USD", "Total_Reviews_Count",
                 "Average_Rating_Overall"}
DateFields == {"DateAdded", "LastUpdated"}

Digits == {"0", "1", "2", "3", "4", "5", "6", "7", "8", "9"}
NA == <<"N", "/", "A">>
TypeChars(ty) ==
    CASE ty = "Direct" -> <<"D", "i", "r", "e", "c", "t">>
      [] ty = "Indirect" -> <<"I", "n", "d", "i", "r", "e", "c", "t">>
      [] ty = "N/A" -> NA
      [] ty = "" -> <<>>
      [] OTHER -> <<ty>>
\* json.load of a record file: the strings of the record by their characters, the
\* date and the identifier as the strings research wrote
AsText(v) ==
    CASE v[1] = "str" -> JText(TypeChars(v[2]))
      [] v[1] = "date" -> JText(<<"2", "0", "2", "4", "-", "0", "1", "-", "0", ToString(v[2])>>)
      [] v[1] = "uuid" -> JText(<<"uuid-", ToString(v[2])>>)
      [] OTHER -> v
StartsWith(chars, prefix) ==
    Len(chars) >= Len(prefix) /\ SubSeq(chars, 1, Len(prefix)) = prefix
IsHttpUrl(v) ==
    IsText(v) /\ (\/ StartsWith(v[2], <<"h", "t", "t", "p", ":", "/", "/">>)
                  \/ StartsWith(v[2], <<"h", "t", "t", "p", "s", ":", "/", "/">>))

RECURSIVE Concat(_)
Concat(seqs) == IF seqs = <<>> THEN <<>> ELSE Head(seqs) \o Concat(Tail(seqs))
RECURSIVE Join(_, _)
Join(sep, seqs) ==
    IF seqs = <<>> THEN <<>>
    ELSE IF Len(seqs) = 1 THEN Head(seqs)
    ELSE Head(seqs) \o sep \o Join(sep, Tail(seqs))

\* str(value) and repr(item), for the values the records below hold
RECURSIVE Repr(_)
Repr(v) ==
    CASE v[1] = "text" -> <<"'">> \o v[2] \o <<"'">>
      [] v[1] = "str" -> <<"'">> \o TypeChars(v[2]) \o <<"'">>
      [] v[1] = "num" -> <<ToString(v[2])>>
      [] v[1] = "null" -> <<"N", "o", "n", "e">>
      [] v[1] = "list" -> <<"[">> \o Join(<<",", " ">>, [k \in 1..Len(v[2]) |-> Repr(v[2][k])])
                          \o <<"]">>
      [] OTHER -> <<"{", "}">>
Str(v) ==
    IF v[1] = "text" THEN v[2] ELSE IF v[1] = "str" THEN TypeChars(v[2]) ELSE Repr(v)

\* the value is falsy (`if value`), for the values of a record
MapTruthy(v) ==
    CASE v[1] = "text" -> v[2] # <<>>
      [] OTHER -> Truthy(v)

Prop(type, value) == [type |-> type, value |-> value]
Block(content) == content
EmptyRichText == Prop("rich_text", <<Block(<<>>)>>)

\* the branch of `if value is None or value == "N/A":`
EmptyProperty(field) ==
    CASE field = TITLE_FIELD_NAME ->
             Prop("title", <<Block(<<"U", "n", "t", "i", "t", "l", "e", "d", " ",
                                     "C", "o", "m", "p", "e", "t", "i", "t", "o", "r">>)>>)
      [] field = "WebsiteURL" -> Prop("url", JNull)
      [] field = "Type" -> Prop("select", JNull)
      [] field \in DateFields -> Prop("date", JNull)
      [] field \in NumberFields -> Prop("number", JNull)
      [] OTHER -> EmptyRichText

\* variant of Slice: the slice ends one character early
SliceOffByOne(content, i) ==
    SubSeq(content, i + 1, IF i + BlockLimit - 1 < Len(content) THEN i + BlockLimit - 1
                           ELSE Len(content))
\* content_string[i:i+2000], i counted from 0
Slice(content, i) ==
    SubSeq(content, i + 1, IF i + BlockLimit < Len(content) THEN i + BlockLimit
                           ELSE Len(content))
\* for i in range(0, len(content_string), 2000): rich_text_payload.append(chunk)
RECURSIVE ChunkFrom(_, _)
ChunkFrom(content, i) ==
    IF i >= Len(content) THEN <<>>
    ELSE <<Block(Slice(content, i))>> \o ChunkFrom(content, i + BlockLimit)
ChunkedRichText(content_string) ==
    LET rich_text_payload == ChunkFrom(content_string, 0)
    IN IF rich_text_payload = <<>> THEN EmptyRichText
       ELSE Prop("rich_text", rich_text_payload)

BulletPrefix == <<"U+00E2", "U+20AC", "U+00A2", " ">>
\* "\n".join([f"<bullet> {str(item)}" for item in value])
BulletLines(value) ==
    Join(<<"\n">>, [k \in 1..Len(value) |-> BulletPrefix \o Str(value[k])])

\* f"{i}. [{source['description']}]({source['url']})\n"
SourceLine(i, source) ==
    <<ToString(i), ".", " ", "[">> \o Str(source[2]["description"]) \o <<"]", "(">>
        \o Str(source[2]["url"]) \o <<")", "\n">>
\* for i, source in enumerate(value, 1): ... ; the last chunk is added after the loop
RECURSIVE SourceChunks(_, _, _, _)
SourceChunks(value, i, current_chunk, rich_text_payload) ==
    IF i > Len(value)
    THEN IF current_chunk # <<>> THEN Append(rich_text_payload, Block(current_chunk))
         ELSE rich_text_payload
    ELSE IF ~IsValidSource(value[i])
    THEN SourceChunks(value, i + 1, current_chunk, rich_text_payload)
    ELSE LET source_line == SourceLine(i, value[i])
         IN IF Len(current_chunk) + Len(source_line) > BlockLimit
            THEN SourceChunks(value, i + 1, source_line,
                              IF current_chunk # <<>>
                              THEN Append(rich_text_payload, Block(current_chunk))
                              ELSE rich_text_payload)
            ELSE SourceChunks(value, i + 1, current_chunk \o source_line, rich_text_payload)

\* datetime.strptime(str(value), "%Y-%m-%d") and strftime back, for zero-padded
\* dates: four digits, a month 01..12, a day 01..31 (the length of the month is
\* left out: no record below holds a 30th or 31st)
ParsesAsDate(chars) ==
    /\ Len(chars) = 10 /\ chars[5] = "-" /\ chars[8] = "-"
    /\ \A k \in {1, 2, 3, 4, 6, 7, 9, 10} : chars[k] \in Digits
    /\ \/ chars[6] = "0" /\ chars[7] # "0"
       \/ chars[6] = "1" /\ chars[7] \in {"0", "1", "2"}
    /\ \/ chars[9] = "0" /\ chars[10] # "0"
       \/ chars[9] \in {"1", "2"}
       \/ chars[9] = "3" /\ chars[10] \in {"0", "1"}
\* float(str(value).replace("$", "").replace(",", "")), for unsigned decimal digits
NumberChars(chars) == SelectSeq(chars, LAMBDA c : c \notin {"$", ","})
ParsesAsFloat(chars) ==
    NumberChars(chars) # <<>> /\ \A k \in 1..Len(NumberChars(chars)) : NumberChars(chars)[k] \in Digits

\* the body of `for field in CSV_SCHEMA:` for one field
MapField(field, competitor_data) ==
    LET got == AsText(Get(competitor_data, field, JNull))
        value == IF field = "CompetitorID" /\ got # JNull THEN JText(Str(got)) ELSE got
    IN IF value = JNull \/ (IsText(value) /\ value[2] = NA)
       THEN EmptyProperty(field)
       ELSE IF field = TITLE_FIELD_NAME
       THEN Prop("title", <<Block(Str(value))>>)
       ELSE IF field = "WebsiteURL" \/ IsHttpUrl(value)
       THEN Prop("url", IF MapTruthy(value) THEN JText(Str(value)) ELSE JNull)
       ELSE IF field = "Type"
       THEN IF IsText(value) /\ \E ty \in COMPETITOR_TYPES : value[2] = TypeChars(ty)
            THEN Prop("select", value) ELSE Prop("select", JNull)
       ELSE IF field = "Research_Sources"
       THEN IF IsList(value) /\ value[2] # <<>>
            THEN Prop("rich_text", SourceChunks(value[2], 1, <<>>, <<>>))
            ELSE EmptyRichText
       ELSE IF field \in DateFields
       THEN IF ParsesAsDate(Str(value)) THEN Prop("date", JText(Str(value)))
            ELSE Prop("date", JNull)
       ELSE IF field \in NumberFields
       THEN IF ParsesAsFloat(Str(value)) THEN Prop("number", JText(NumberChars(Str(value))))
            ELSE Prop("number", JNull)
       ELSE IF IsList(value)
       THEN ChunkedRichText(BulletLines(value[2]))
       ELSE ChunkedRichText(Str(value))

\* variant of map_data_to_notion_properties: the loop runs over the record's keys
map_data_of_record_keys(competitor_data) ==
    [field \in DOMAIN competitor_data[2] |-> MapField(field, competitor_data)]
\* properties = {}; for field in CSV_SCHEMA: properties[field] = ...
map_data_to_notion_properties(competitor_data) ==
    [field \in SchemaFields |-> MapField(field, competitor_data)]

\* create_notion_db_from_schema: the property type declared for a field
DeclaredType(field_name) ==
    IF field_name = TITLE_FIELD_NAME THEN "title"
    ELSE IF field_name = "WebsiteURL" THEN "url"
    ELSE IF field_name = "Type" THEN "select"
    ELSE IF field_name = "Research_Sources" THEN "rich_text"
    ELSE IF field_name \in DateFields THEN "date"
    ELSE IF field_name \in NumberFields THEN "number"
    ELSE "rich_text"

(******************** the schema override of config.json *******************)
\* the built-in field list and type definitions, as JSON values
BuiltinFields == JList([i \in 1..Len(CSV_SCHEMA) |-> JStr(CSV_SCHEMA[i])])
BuiltinDefinitions ==
    JDict([k \in DOMAIN COMPETITOR_TYPE_DEFINITIONS |-> JStr(COMPETITOR_TYPE_DEFINITIONS[k])])

\* variant of DerivedTypes: the list is not recomputed after the override
DerivedTypesOfBuiltin(type_definitions) == Keys(BuiltinDefinitions)
\* COMPETITOR_TYPES = list(COMPETITOR_TYPE_DEFINITIONS.keys())
DerivedTypes(type_definitions) == Keys(type_definitions)

Loaded(fields, type_definitions, warned) ==
    [CSV_SCHEMA |-> fields, COMPETITOR_TYPE_DEFINITIONS |-> type_definitions,
     COMPETITOR_TYPES |-> DerivedTypes(type_definitions), warned |-> warned]
\* except Exception as _e: print a warning; nothing has been assigned before it
LoadWarned == Loaded(BuiltinFields, BuiltinDefinitions, TRUE)

\* The module-level try block: the file is read when it exists, each of the two
\* settings is replaced when its value is a non-empty list (a non-empty dict).
LoadSchema(file) ==
    IF file.kind = "absent" THEN Loaded(BuiltinFields, BuiltinDefinitions, FALSE)
    ELSE IF file.kind # "json" THEN LoadWarned
    ELSE IF ~IsDict(file.data) THEN LoadWarned
    ELSE LET initial_research_cfg == Get(file.data, "initial_research", JDict(EmptyMap))
         IN IF ~IsDict(initial_research_cfg) THEN LoadWarned
            ELSE LET csv_schema == Get(initial_research_cfg, "csv_schema", JNull)
                     definitions ==
                         Get(initial_research_cfg, "competitor_type_definitions", JNull)
                 IN Loaded(IF IsList(csv_schema) /\ Truthy(csv_schema)
                           THEN csv_schema ELSE BuiltinFields,
                           IF IsDict(definitions) /\ Truthy(definitions)
                           THEN definitions ELSE BuiltinDefinitions,
                           FALSE)

\* what config.json can be: missing, unreadable, not JSON, or a JSON value
OverrideFields == JList(<<JStr("Competitor Name"), JStr("Tagline")>>)
OverrideDefinitions == JDict([Partner |-> JStr("resells the product")])
SchemaValues == {JNull, JStr("a,b"), JList(<<>>), OverrideFields}
DefinitionValues == {JNull, JList(<<JStr("Direct")>>), JDict(EmptyMap), OverrideDefinitions}
Section(csv_schema, definitions) ==
    LET present == {k \in {"csv_schema", "competitor_type_definitions"} :
                       (IF k = "csv_schema" THEN csv_schema ELSE definitions) # JNull}
    IN JDict([k \in present |-> IF k = "csv_schema" THEN csv_schema ELSE definitions])
ConfigJson(data) == [kind |-> "json", data |-> data]
ConfigFiles ==
    {[kind |-> "absent"], [kind |-> "unreadable"], [kind |-> "garbage"],
     ConfigJson(JList(<<>>)), ConfigJson(JDict(EmptyMap)),
     ConfigJson(JDict([initial_research |-> JNull])),
     ConfigJson(JDict([initial_research |-> JStr("defaults")]))}
        \cup {ConfigJson(JDict([initial_research |-> Section(csv_schema, definitions)])) :
                 csv_schema \in SchemaValues, definitions \in DefinitionValues}

(*********************** stripping the code fences *************************)
\* A response text is a sequence of characters.
Whitespace == {" ", "\n"}
\* the backquote character
Backquote == "backquote"
Fence == <<Backquote, Backquote, Backquote>>
JsonFence == Fence \o <<"j", "s", "o", "n">>
\* text[from:to] for 0 <= from and 0 <= to
PySlice(text, from, to) ==
    IF from >= to \/ from >= Len(text) THEN <<>>
    ELSE SubSeq(text, from + 1, IF to < Len(text) THEN to ELSE Len(text))
\* text[from:-drop]: a negative end counts from the end of the text
PySliceFromEnd(text, from, drop) ==
    PySlice(text, from, IF Len(text) > drop THEN Len(text) - drop ELSE 0)
startswith(text, prefix) ==
    Len(text) >= Len(prefix) /\ SubSeq(text, 1, Len(prefix)) = prefix
endswith(text, suffix) ==
    Len(text) >= Len(suffix) /\ SubSeq(text, Len(text) - Len(suffix) + 1, Len(text)) = suffix
RECURSIVE lstrip(_)
lstrip(text) ==
    IF text # <<>> /\ Head(text) \in Whitespace THEN lstrip(Tail(text)) ELSE text
RECURSIVE rstrip(_)
rstrip(text) ==
    IF text # <<>> /\ text[Len(text)] \in Whitespace
    THEN rstrip(SubSeq(text, 1, Len(text) - 1)) ELSE text
strip(text) == rstrip(lstrip(text))

\* research_competitor_to_json, lines 155-163: three tests, one after the other
ResearchStripFence(text) ==
    LET t0 == strip(text)
        t1 == IF startswith(t0, JsonFence) THEN PySlice(t0, 7, Len(t0)) ELSE t0
        t2 == IF startswith(t1, Fence) THEN PySlice(t1, 3, Len(t1)) ELSE t1
        t3 == IF endswith(t2, Fence) THEN PySliceFromEnd(t2, 0, 3) ELSE t2
    IN strip(t3)
\* update_single_competitor_async, lines 678-681: response_text[7:-3].strip()
UpdateStripFence(text) ==
    LET t0 == strip(text)
    IN IF startswith(t0, JsonFence) THEN strip(PySliceFromEnd(t0, 7, 3)) ELSE t0
\* discover_new_competitors_async, lines 934-937: the same statement
DiscoverStripFence(text) ==
    LET t0 == strip(text)
    IN IF startswith(t0, JsonFence) THEN strip(PySliceFromEnd(t0, 7, 3)) ELSE t0

\* the text handed to json.loads at each of the three places
StripFence(site, text) ==
    CASE site = "research" -> ResearchStripFence(text)
      [] site = "update" -> UpdateStripFence(text)
      [] site = "discover" -> DiscoverStripFence(text)

\* responses: a payload with or without a leading marker, a trailing marker, line
\* breaks between them and white space around
FencePayload == <<"{", "1", "}">>
LeadingMarkers == {<<>>, JsonFence, Fence}
TrailingMarkers == {<<>>, Fence}
Breaks == {<<>>, <<"\n">>}
FencedTexts ==
    {outer \o leading \o break \o FencePayload \o break \o trailing \o outer :
        leading \in LeadingMarkers, trailing \in TrailingMarkers,
        break \in Breaks, outer \in Breaks}
FenceSites == {"research", "update", "discover"}

(************************ calls of single functions ************************)
SourceEntries ==
    {Source1, Source1b, Source2, UrlOnly, DescriptionOnly, JStr("u5"), EmptyUrl, NullUrl}
SourceLists == UNION {[1..n -> SourceEntries] : n \in 0..MaxSources}

\* a string of n distinct characters
LongText(n) == JText([i \in 1..n |-> ToString(i)])
\* lengths around the multiples of the block limit
TextLens == {k * BlockLimit + d : k \in 1..MaxBlocks, d \in {-1, 0, 1}}
ShortTexts ==
    {JText(<<>>), JText(NA), JText(<<"a", "b", "c">>),
     JText(<<"h", "t", "t", "p", "s", ":", "/", "/", "x">>),
     JText(TypeChars("Direct")),
     JText(<<"2", "0", "2", "4", "-", "0", "1", "-", "0", "5">>),
     JText(<<"2", "0", "2", "4", "-", "1", "3", "-", "0", "5">>),
     JText(<<"$", "1", ",", "2", "0", "0">>)}
Abc == JText(<<"a", "b", "c">>)
\* lists whose bullet lines are 2000 characters, a little more, and two blocks more
ItemLists ==
    {<<>>, <<Abc>>, <<Abc, JNum(7)>>,
     <<LongText(BlockLimit - Len(BulletPrefix))>>,
     <<LongText(BlockLimit - Len(BulletPrefix)), Abc>>,
     <<LongText(BlockLimit), LongText(BlockLimit)>>}
FieldValues ==
    {JNull, JNum(7), JNum(0), JDict(EmptyMap)} \cup ShortTexts
        \cup {LongText(n) : n \in TextLens} \cup {JList(items) : items \in ItemLists}
\* a source whose line in the Research_Sources text is n characters long
SourceOfLine(n) == JDict([url |-> JText(<<"u">>), description |-> LongText(n - 9)])
MapSourceEntries ==
    {SourceOfLine(BlockLimit \div 2), SourceOfLine(BlockLimit), SourceOfLine(BlockLimit + 1),
     Abc}
MapSourceLists == UNION {[1..n -> MapSourceEntries] : n \in 0..MaxSources}
\* records holding one field
RecordOf(field, value) == JDict([k \in {field} |-> value])
\* a record with a key outside the schema, next to a schema field or alone
WithExtraKey(fields) ==
    JDict([k \in fields \cup {"Nickname"} |-> IF k = "Overview" THEN JText(NA) ELSE Abc])
MapRecords ==
    {RecordOf(field, value) : field \in SchemaFields, value \in FieldValues}
        \cup {JDict(EmptyMap), WithExtraKey({}), WithExtraKey({"Overview", "Key_Features"})}
        \cup {RecordOf("Research_Sources", JList(sources)) : sources \in MapSourceLists}

\* existing_competitors
ExistingLists == UNION {[1..n -> {KnownName, <<"c">>}] : n \in 0..MaxNames}
\* all_changes
ChangeLists ==
    UNION {[1..n -> {SummaryLine(JStr("Acme"), Summary)}] : n \in 0..MaxNames}
\* the calls, by function, with their arguments
Calls(fn) ==
    CASE fn = "dedupe" -> SourceLists
      [] fn = "map" -> MapRecords
      [] fn = "discover" -> ExistingLists
      [] fn = "digest" -> ChangeLists
      [] fn = "load" -> ConfigFiles
      [] fn = "fence" -> [site : FenceSites, text : FencedTexts]
CalledFunctions == {"dedupe", "map", "discover", "digest", "load", "fence"}

\* the statements between the model's answer and json.loads(response_text)
FenceReturns ==
    /\ mode = "call" /\ call.fn = "fence" /\ call.pc = "called"
    /\ call' = [call EXCEPT !.pc = "returned",
                             !.out = StripFence(call.arg.site, call.arg.text)]
    /\ UNCHANGED <<mode, names, mainPc, result, tasks, fs, today, first, ops, notion>>

\* utils is imported: the module-level statements of lines 19-39 run
LoadReturns ==
    /\ mode = "call" /\ call.fn = "load" /\ call.pc = "called"
    /\ call' = [call EXCEPT !.pc = "returned", !.out = LoadSchema(call.arg)]
    /\ UNCHANGED <<mode, names, mainPc, result, tasks, fs, today, first, ops, notion>>

\* notion_properties = map_data_to_notion_properties(competitor_data)
MapReturns ==
    /\ mode = "call" /\ call.fn = "map" /\ call.pc = "called"
    /\ call' = [call EXCEPT !.pc = "returned",
                             !.out = map_data_to_notion_properties(call.arg)]
    /\ UNCHANGED <<mode, names, mainPc, result, tasks, fs, today, first, ops, notion>>

\* unique_sources = dedupe_sources_preserve_order(sources)
DedupeReturns ==
    /\ mode = "call" /\ call.fn = "dedupe" /\ call.pc = "called"
    /\ call' = [call EXCEPT !.pc = "returned",
                             !.out = dedupe_sources_preserve_order(call.arg)]
    /\ UNCHANGED <<mode, names, mainPc, result, tasks, fs, today, first, ops, notion>>

InitCall ==
    /\ mode = "call"
    /\ names = <<>>
    /\ mainPc = "init"
    /\ result = <<>>
    /\ tasks = [i \in TaskIds |-> IdleTask]
    /\ fs = [k \in FileKeys |-> Absent]
    /\ today = 1
    /\ first = [p \in RecordPaths |-> NoFirst]
    /\ ops = 0
    /\ \E fn \in CalledFunctions : \E arg \in Calls(fn) : call = NewCall(fn, arg)
    /\ notion = EmptyStore

NextCall ==
    \/ DedupeReturns
    \/ MapReturns
    \/ DiscoverStart
    \/ DiscoverModelReturns
    \/ DigestStart
    \/ DigestModelReturns
    \/ LoadReturns
    \/ FenceReturns

SpecCall == InitCall /\ [][NextCall]_vars

(************************* add_json_to_notion_db ***************************)
\* A page of the database: its properties; from is history, the record file whose
\* reconciliation created the page.
Page(properties, from) == [properties |-> properties, from |-> from]
\* the content of the title property of a page
TitleOf(page) == page.properties[TITLE_FIELD_NAME].value[1]
PageId(k) == <<"page", k>>
\* databases.query(filter={"property": TITLE_FIELD_NAME, "title": {"equals": title}}):
\* the ids of the pages whose title is exactly the string, in the order of the database
QueryResults(pages, title) ==
    LET ids == [k \in 1..Len(pages) |-> PageId(k)]
    IN SelectSeq(ids, LAMBDA id : TitleOf(pages[id[2]]) = Str(title))

StoreOutcomes == {"ok", "error"}
RetBool(b) == [tag |-> "bool", value |-> b]
ReturnBool(t, b) == [t EXCEPT !.pc = "done", !.ret = RetBool(b)]
\* the coroutine object add_json_to_notion_db(client, database_id, path)
NewUploadTask(path) == [IdleTask EXCEPT !.kind = "upload", !.path = path, !.pc = "created"]

\* await notion_async_client.<op>(...) is reached: the request is sent
IssueStoreCall(t, op) ==
    [t EXCEPT !.pc = IF op = "query" THEN "await_query"
                     ELSE IF op = "update" THEN "await_update" ELSE "await_create",
              !.calls = Append(@, op)]

\* From the call to the first await: the file is read (any exception returns False),
\* competitor_data.get(...) at line 389 is outside every try, the properties are
\* mapped, and the lookup is sent when the title has a value, the create otherwise.
UploadBody(t, fsys, ioRead) ==
    LET file == fsys[<<t.path, "">>]
    IN IF ioRead # "ok" \/ file.kind # "json" THEN ReturnBool(t, FALSE)
       ELSE IF ~IsDict(file.data) THEN SetPc(t, "raised")
       ELSE LET competitor_data == file.data
                title == AsText(Get(competitor_data, TITLE_FIELD_NAME, JNull))
            IN IF MapTruthy(title)
               THEN IssueStoreCall([t EXCEPT !.old = competitor_data], "query")
               ELSE IssueStoreCall([t EXCEPT !.old = competitor_data], "create")

\* variant of WriteFor: the page is created whatever the lookup found
WriteAlwaysCreate(existing_page_id) == "create"
\* if existing_page_id: pages.update(...) else: pages.create(...)
WriteFor(existing_page_id) == IF Truthy(existing_page_id) THEN "update" ELSE "create"

\* variant of AfterQuery: a lookup that raises ends the reconciliation of the record
AfterQueryAborting(t, outcome, results) ==
    IF outcome # "ok"
    THEN ReturnBool([t EXCEPT !.lookup = "error"], FALSE)
    ELSE LET existing_page_id == IF results # <<>> THEN results[1] ELSE JNull
         IN IssueStoreCall([t EXCEPT !.page = existing_page_id,
                                     !.lookup = IF results # <<>> THEN "found" ELSE "empty"],
                           WriteFor(existing_page_id))
\* The lookup resumes: existing_page_id is the id of the first result; an exception
\* of the lookup is caught and leaves existing_page_id None.  Then the write is sent.
AfterQuery(t, outcome, results) ==
    LET existing_page_id == IF outcome = "ok" /\ results # <<>> THEN results[1] ELSE JNull
    IN IssueStoreCall([t EXCEPT !.page = existing_page_id,
                                !.lookup = IF outcome # "ok" THEN "error"
                                           ELSE IF results # <<>> THEN "found" ELSE "empty"],
                      WriteFor(existing_page_id))

\* pages.update(page_id, properties) / pages.create(parent, properties) in the database
ApplyWrite(store, t) ==
    LET notion_properties == map_data_to_notion_properties(t.old)
    IN IF t.pc = "await_update"
       THEN [store EXCEPT !.pages[t.page[2]].properties = notion_properties,
                          !.writes = Append(@, t.path)]
       ELSE [store EXCEPT !.pages = Append(@, Page(notion_properties, t.path)),
                          !.writes = Append(@, t.path)]

\* In a gather the event loop first runs the first step of every coroutine, in the
\* order of the arguments; the awaited calls resume after that.
UploadsStarted == \A j \in TaskIds : tasks[j].pc # "created"

\* the event loop runs the coroutine for the first time
UploadStart(i) ==
    /\ tasks[i].kind = "upload" /\ tasks[i].pc = "created"
    /\ \A j \in 1..(i - 1) : tasks[j].pc # "created"
    /\ \E ioRead \in ReadOutcomes :
           tasks' = [tasks EXCEPT ![i] = UploadBody(tasks[i], fs, ioRead)]
    /\ UNCHANGED <<mode, names, mainPc, result, fs, today, first, ops, call, notion>>

\* await notion_async_client.databases.query(...) resumes
UploadQueryReturns(i) ==
    /\ tasks[i].kind = "upload" /\ tasks[i].pc = "await_query"
    /\ UploadsStarted
    /\ \E outcome \in StoreOutcomes :
           LET title == AsText(Get(tasks[i].old, TITLE_FIELD_NAME, JNull))
           IN /\ tasks' = [tasks EXCEPT
                              ![i] = AfterQuery(tasks[i], outcome,
                                                QueryResults(notion.pages, title))]
              /\ notion' = IF outcome = "ok" THEN notion ELSE [notion EXCEPT !.failed = TRUE]
    /\ UNCHANGED <<mode, names, mainPc, result, fs, today, first, ops, call>>

\* await notion_async_client.pages.update(...) / pages.create(...) resumes: return
\* True, or the outer handler returns False
UploadWriteReturns(i) ==
    /\ tasks[i].kind = "upload" /\ tasks[i].pc \in {"await_update", "await_create"}
    /\ UploadsStarted
    /\ \E outcome \in StoreOutcomes :
           IF outcome = "ok"
           THEN /\ notion' = ApplyWrite(notion, tasks[i])
                /\ tasks' = [tasks EXCEPT ![i] = ReturnBool([@ EXCEPT !.wrote = TRUE], TRUE)]
           ELSE /\ notion' = [notion EXCEPT !.failed = TRUE]
                /\ tasks' = [tasks EXCEPT ![i] = ReturnBool(@, FALSE)]
    /\ UNCHANGED <<mode, names, mainPc, result, fs, today, first, ops, call>>

(********************* populate_notion_db_from_folder **********************)
PopulateResult == [returned |-> "", successful_uploads |-> 0]

\* what a record file of the folder can hold: text that is not JSON, JSON that is
\* not an object, a record, a record named "N/A", a record without a name
PopulateFiles ==
    {Absent, Partial, JsonFile(JList(<<>>), "other", JNull),
     JsonFile(StoredRecord, "research", FullRecord),
     JsonFile(Put(StoredRecord, "Competitor Name", JStr("N/A")), "research", FullRecord),
     JsonFile(WithoutKey(StoredRecord, "Competitor Name"), "research", FullRecord)}

CredentialOutcomes == {"ok", "no_token", "no_database_id"}

\* variant of CountSuccessful: every result that is not an exception is counted
CountNotException(results) == Len(SelectSeq(results, LAMBDA r : r.tag = "bool"))
\* for res_or_exc in results: ... elif res_or_exc is True: successful_uploads += 1
CountSuccessful(results) ==
    Len(SelectSeq(results, LAMBDA r : r.tag = "bool" /\ r.value))

\* From the call to `await asyncio.gather(*tasks, return_exceptions=True)`: the
\* token and the database id are checked, the folder is listed, one coroutine is
\* made per .json file.
PopulateStart ==
    /\ mode = "populate" /\ mainPc \in {"init", "returned"} /\ ops < MaxOps
    /\ ops' = ops + 1
    /\ \E credentials \in CredentialOutcomes :
       \E json_files \in Listings(fs) :
           IF credentials # "ok" \/ json_files = <<>>
           THEN /\ mainPc' = "returned"
                /\ result' = [PopulateResult EXCEPT
                                  !.returned = IF credentials # "ok" THEN credentials
                                               ELSE "no_files"]
                /\ UNCHANGED <<names, tasks>>
           ELSE /\ names' = json_files
                /\ tasks' = [i \in TaskIds |->
                                IF i <= Len(json_files) THEN NewUploadTask(json_files[i])
                                ELSE IdleTask]
                /\ result' = PopulateResult
                /\ mainPc' = "gather"
    /\ UNCHANGED <<mode, fs, today, first, call, notion>>

\* results = await asyncio.gather(*tasks, return_exceptions=True), and the count
PopulateGather ==
    /\ mode = "populate" /\ mainPc = "gather"
    /\ \A i \in 1..Len(names) : tasks[i].pc \in {"done", "raised"}
    /\ LET results == [i \in 1..Len(names) |->
                          IF tasks[i].pc = "raised" THEN [tag |-> "exception"]
                          ELSE tasks[i].ret]
       IN result' = [result EXCEPT !.returned = "counted",
                                   !.successful_uploads = CountSuccessful(results)]
    /\ mainPc' = "returned"
    /\ UNCHANGED <<mode, names, tasks, fs, today, first, ops, call, notion>>

InitPopulate ==
    /\ mode = "populate"
    /\ names = <<>>
    /\ mainPc = "init"
    /\ result = PopulateResult
    /\ tasks = [i \in TaskIds |-> IdleTask]
    /\ fs \in {f \in [FileKeys -> PopulateFiles] :
                 /\ \A k \in FileKeys : k[2] # "" => f[k] = Absent
                 /\ Cardinality(ListedPaths(f)) <= MaxNames}
    /\ today = 1
    /\ first = [p \in RecordPaths |-> NoFirst]
    /\ ops = 0
    /\ call = NoCall
    /\ notion = EmptyStore

NextPopulate ==
    \/ PopulateStart
    \/ PopulateGather
    \/ \E i \in TaskIds : UploadStart(i)
    \/ \E i \in TaskIds : UploadQueryReturns(i)
    \/ \E i \in TaskIds : UploadWriteReturns(i)

SpecPopulate == InitPopulate /\ [][NextPopulate]_vars

\* the digest, called directly or from main_update
InitDigest == InitCall \/ InitMain
NextDigest == NextCall \/ NextMain
SpecDigest == InitDigest /\ [][NextDigest]_vars

(******************************* claims ************************************)
Research(i) == tasks[i].kind = "research"
Indices(n) == [i \in 1..n |-> i]
Persisted(i) == tasks[i].persisted
FailedEveryAttempt(i) == tasks[i].exhausted /\ ~tasks[i].persisted
ExpectedPaths ==
    LET kept == SelectSeq(Indices(Len(names)), Persisted)
    IN [k \in 1..Len(kept) |-> OutputFilePath(names[kept[k]])]

\* C1: when research_competitors_async returns, it returns exactly the output
\* paths of the names whose research succeeded, N - |F| of them where F are the
\* names that failed every attempt, and it raises only when it could not create
\* the output folder, before any task ran: no task failure makes it raise.
C1_FailureIsolation ==
    /\ mainPc = "done" =>
          /\ result = ExpectedPaths
          /\ Len(result) = Len(names)
                - Cardinality({i \in 1..Len(names) : FailedEveryAttempt(i)})
    /\ mainPc = "raised" => \A i \in TaskIds : tasks[i].kind = "none"

C1_Witness ==
    /\ mainPc = "done" /\ Len(names) = 2
    /\ FailedEveryAttempt(1) /\ Persisted(2)
    /\ result = <<OutputFilePath(names[2])>>

\* C2: research_competitor_to_json never ends by raising: the caller of the task
\* never sees an exception, and a finished task returned its output path or None.
C2_NeverRaises ==
    /\ mainPc # "raised"
    /\ \A i \in TaskIds : Research(i) =>
          /\ tasks[i].pc # "raised"
          /\ tasks[i].pc = "done" =>
                \/ tasks[i].ret = RetNone
                \/ tasks[i].ret = RetPath(OutputFilePath(names[i]))

\* an exception left the body (the failure log could not be written), was absorbed,
\* and the task later returned
C2_Witness ==
    /\ mainPc = "done" /\ tasks[1].exhausted
    /\ ".fatal.txt" \in tasks[1].touched
    /\ fs[<<tasks[1].path, ".fatal.txt">>] = Partial

\* C3: every research task terminates (so the caller eventually resumes).
C3_Terminates == <>(mainPc \in {"done", "raised"})

\* C4: a research task issues at most max_retries (3) model requests for one
\* competitor, invalid responses and model errors counted against the same budget.
C4_RequestBudget ==
    \A i \in TaskIds : Research(i) => tasks[i].requests <= max_retries

\* C5: a task that exhausted its attempts has returned None, has not written the
\* record file, and has written exactly one diagnostic file, chosen by the failure
\* of the final attempt: .error.txt with the raw response for invalid JSON,
\* .fatal.txt for an unexpected error.
C5_ExhaustionDiagnostics ==
    \A i \in TaskIds : (Research(i) /\ tasks[i].exhausted) =>
        /\ tasks[i].pc = "done" /\ tasks[i].ret = RetNone
        /\ "" \notin tasks[i].touched
        /\ tasks[i].lastFail = "invalid" =>
              /\ tasks[i].touched = {".error.txt"}
              /\ fs[<<tasks[i].path, ".error.txt">>] = TextFile(tasks[i].lastText)
        /\ tasks[i].lastFail = "error" =>
              /\ tasks[i].touched = {".fatal.txt"}
              /\ fs[<<tasks[i].path, ".fatal.txt">>].kind = "text"


RecordFile(p) == fs[<<p, "">>]
Updated(i) == tasks[i].kind = "update" /\ tasks[i].pc = "done" /\ tasks[i].ret.tag = "pair"
Skipped(i) == tasks[i].kind = "update" /\ tasks[i].pc = "done" /\ tasks[i].ret = RetNone

\* C6: every record file written by a successful research or update has exactly
\* the schema's fields as its top-level keys.
C6_FieldCompleteness ==
    \A p \in RecordPaths :
        RecordFile(p).kind = "json" => Keys(RecordFile(p).data) = SchemaFields

\* C7: after a successful update the record's CompetitorID and DateAdded are the
\* ones the record had before the update.
C7_UpdateKeepsIdentity ==
    \A i \in TaskIds : Updated(i) =>
        /\ Get(RecordFile(tasks[i].path).data, "CompetitorID", JNull)
              = Get(tasks[i].old, "CompetitorID", JNull)
        /\ Get(RecordFile(tasks[i].path).data, "DateAdded", JNull)
              = Get(tasks[i].old, "DateAdded", JNull)

\* C8: an update that returned None left the record file as it was at the call.
C8_SkippedUpdateLeavesFile ==
    \A i \in TaskIds : Skipped(i) => RecordFile(tasks[i].path) = tasks[i].before

\* C9: a research that returns its path for a name whose record already exists
\* leaves the identifier and creation date of the record's first write.
C9_ResearchKeepsIdentity ==
    \A i \in TaskIds :
        (Research(i) /\ tasks[i].pc = "done" /\ tasks[i].ret.tag = "path") =>
            /\ Get(RecordFile(tasks[i].path).data, "CompetitorID", JNull)
                  = first[tasks[i].path].id
            /\ Get(RecordFile(tasks[i].path).data, "DateAdded", JNull)
                  = first[tasks[i].path].date

\* C10: in a record written by research, Type is the model's value when that value
\* is a member of the enum, and "N/A" when it is absent or anything else; the
\* record is persisted in both cases.
ModelType(p) == Get(RecordFile(p).src, "Type", JNull)
C10_EnumSafety ==
    \A p \in RecordPaths :
        (RecordFile(p).kind = "json" /\ RecordFile(p).writer = "research") =>
            /\ HasKey(RecordFile(p).data, "Type")
            /\ RecordFile(p).data[2]["Type"] =
                  IF ModelType(p) \in {JStr(ty) : ty \in COMPETITOR_TYPES}
                  THEN ModelType(p) ELSE JStr("N/A")

C10_Witness ==
    \E p \in RecordPaths :
        /\ RecordFile(p).kind = "json" /\ RecordFile(p).writer = "research"
        /\ ModelType(p) = JStr("Legacy")
        /\ RecordFile(p).data[2]["Type"] = JStr("N/A")

\* C11: in every record written by a research task, CompetitorID is the identifier
\* the task generated and DateAdded = LastUpdated is the date the task read, whatever
\* the model supplied for the three fields.
ModelField(p, k) == Get(RecordFile(p).src, k, JNull)
ResearchRecord(p) == RecordFile(p).kind = "json" /\ RecordFile(p).writer = "research"
C11_SystemFields ==
    /\ \A p \in RecordPaths : ResearchRecord(p) =>
          LET d == RecordFile(p).data
          IN /\ {"CompetitorID", "DateAdded", "LastUpdated"} \subseteq Keys(d)
             /\ d[2]["CompetitorID"][1] = "uuid"
             /\ d[2]["DateAdded"][1] = "date"
             /\ d[2]["DateAdded"][2] \in 1..today
             /\ d[2]["LastUpdated"] = d[2]["DateAdded"]
    /\ \A i \in TaskIds :
          (Research(i) /\ tasks[i].pc = "done" /\ tasks[i].ret.tag = "path") =>
              /\ RecordFile(tasks[i].path).data[2]["CompetitorID"] = tasks[i].cid
              /\ RecordFile(tasks[i].path).data[2]["DateAdded"] = tasks[i].cdate

\* the model supplied its own identifier and dates, the record holds the task's
C11_Witness ==
    \E p \in RecordPaths :
        /\ ResearchRecord(p)
        /\ ModelField(p, "CompetitorID") = JStr("model-id")
        /\ ModelField(p, "DateAdded") = JStr("model-date")
        /\ RecordFile(p).data[2]["CompetitorID"][1] = "uuid"
        /\ RecordFile(p).data[2]["DateAdded"] = <<"date", 2>>

\* C12: in every record written by a research task, Research_Sources is a list:
\* empty when the model's value is not a list, and otherwise the model's entries
\* that are objects with both a url and a description key, in their order.
HasUrlAndDescription(e) == e[1] = "dict" /\ {"url", "description"} \subseteq DOMAIN e[2]
KeptIndices(s) == {j \in 1..Len(s) : HasUrlAndDescription(s[j])}
NthKept(s, k) == CHOOSE j \in KeptIndices(s) : Cardinality({m \in KeptIndices(s) : m <= j}) = k
C12_SourcesNormalised ==
    \A p \in RecordPaths : ResearchRecord(p) =>
        LET given == ModelField(p, "Research_Sources")
            kept == Get(RecordFile(p).data, "Research_Sources", JNull)
        IN /\ kept[1] = "list"
           /\ given[1] # "list" => kept[2] = <<>>
           /\ given[1] = "list" =>
                 /\ Len(kept[2]) = Cardinality(KeptIndices(given[2]))
                 /\ \A k \in 1..Len(kept[2]) : kept[2][k] = given[2][NthKept(given[2], k)]

C12_Witness ==
    \E p \in RecordPaths :
        /\ ResearchRecord(p)
        /\ ModelField(p, "Research_Sources") = MixedSources
        /\ RecordFile(p).data[2]["Research_Sources"] = JList(<<Source1, Source2, Source1>>)

\* C13: dedupe_sources_preserve_order is idempotent: applied to its own result it
\* returns that result.
Deduped == call.fn = "dedupe" /\ call.pc = "returned"
C13_DedupeIdempotent ==
    Deduped => dedupe_sources_preserve_order(call.out) = call.out

\* the first application removed something, the second removes nothing
C13_Witness ==
    /\ Deduped /\ Len(call.arg) = 3 /\ Len(call.out) = 2
    /\ dedupe_sources_preserve_order(call.out) = call.out

\* C14: the result of dedupe_sources_preserve_order is the subsequence of the input
\* made of the first entry of every url that occurs in it (an entry whose url is
\* missing, null or empty carries no url): each such url once, in input order.
UrlOf(e) == IF e[1] = "dict" /\ "url" \in DOMAIN e[2] THEN e[2]["url"] ELSE JNull
CarriesUrl(e) == UrlOf(e) \notin {JNull, JStr("")}
UrlsIn(s) == {UrlOf(s[j]) : j \in {m \in 1..Len(s) : CarriesUrl(s[m])}}
FirstOccurrences(s) ==
    {j \in 1..Len(s) : CarriesUrl(s[j]) /\ \A m \in 1..(j - 1) : UrlOf(s[m]) # UrlOf(s[j])}
NthFirst(s, k) ==
    CHOOSE j \in FirstOccurrences(s) : Cardinality({m \in FirstOccurrences(s) : m <= j}) = k
C14_DedupeFirstOccurrence ==
    Deduped =>
        /\ \A u \in UrlsIn(call.arg) :
              Cardinality({k \in 1..Len(call.out) : UrlOf(call.out[k]) = u}) = 1
        /\ Len(call.out) = Cardinality(FirstOccurrences(call.arg))
        /\ \A k \in 1..Len(call.out) : call.out[k] = call.arg[NthFirst(call.arg, k)]

\* a url given twice with different descriptions: the first entry stands for it
C14_Witness ==
    /\ Deduped
    /\ call.arg = <<Source1, Source2, Source1b>>
    /\ call.out = <<Source1, Source2>>

\* C15: for a field that reaches the text or list chunking with a rendered string
\* of length L > 0, the mapping emits ceil(L / 2000) rich-text blocks whose contents,
\* concatenated in order, are the rendered string.
Mapped == call.fn = "map" /\ call.pc = "returned"
GenericFields == SchemaFields \ ({TITLE_FIELD_NAME, "WebsiteURL", "Type", "Research_Sources"}
                                    \cup DateFields \cup NumberFields)
\* the record's value of the field, the identifier always as its string
ValueOf(field) ==
    LET value == Get(call.arg, field, JNull)
    IN IF field = "CompetitorID" /\ value # JNull THEN JText(Str(value)) ELSE value
\* the value is neither missing, "N/A" nor an http(s) URL, which have wrappers of
\* their own
Chunked(field) ==
    /\ field \in GenericFields
    /\ ValueOf(field) \notin {JNull, JText(NA)}
    /\ ~IsHttpUrl(ValueOf(field))
Rendered(field) ==
    IF IsList(ValueOf(field)) THEN BulletLines(ValueOf(field)[2]) ELSE Str(ValueOf(field))
CeilDiv(n, d) == (n + d - 1) \div d
C16_BlockLimit ==
    Mapped => \A field \in SchemaFields :
        call.out[field].type = "rich_text" =>
            \A k \in 1..Len(call.out[field].value) : Len(call.out[field].value[k]) <= 2000

\* C17: update_single_competitor_async issues at most 2 model requests; a failed
\* model call, an unparsable response and a response lacking updated_competitor_data
\* or change_summary are failed attempts: the first one is retried, the second one
\* makes the function return None.
UpdateTask(i) == tasks[i].kind = "update"
Lacking(text, old) ==
    \/ text = ModelError
    \/ UpdateLoads(text, old) = Invalid
    \/ "updated_competitor_data" \notin DOMAIN UpdateLoads(text, old)[2]
    \/ "change_summary" \notin DOMAIN UpdateLoads(text, old)[2]
Answered(i) == tasks[i].requests > 0 /\ tasks[i].pc # "await_model"
C17_UpdateRetryBudget ==
    \A i \in TaskIds : UpdateTask(i) =>
        /\ tasks[i].requests <= 2
        /\ (Answered(i) /\ tasks[i].requests = 1 /\ Lacking(tasks[i].lastText, tasks[i].old))
              => tasks[i].pc = "sleep"
        /\ (Answered(i) /\ tasks[i].requests = 2 /\ Lacking(tasks[i].lastText, tasks[i].old))
              => Skipped(i)
        /\ (Skipped(i) /\ tasks[i].requests > 0) =>
              tasks[i].requests = 2 /\ tasks[i].lastFail # "none"

\* a response without change_summary was retried, the second failure ended the update
C17_Witness ==
    /\ UpdateTask(1) /\ Skipped(1) /\ tasks[1].requests = 2
    /\ tasks[1].lastText = "no_summary"
    /\ mainPc = "done" /\ result = <<RetNone>>

\* C19: the step in which update_single_competitor_async succeeds writes the record
\* the model returned, with LastUpdated set to the date of that moment, to the path
\* it read, touches no other file, and returns that path paired with the summary
\* text of that competitor.
ModelUpdate(t) == UpdateLoads(t.lastText, t.old)[2]
StampedToday(updated) ==
    JDict([k \in DOMAIN updated[2] \cup {"LastUpdated"} |->
              IF k = "LastUpdated" THEN <<"date", today>> ELSE updated[2][k]])
NameRead(t) ==
    IF "Competitor Name" \in DOMAIN t.old[2] THEN t.old[2]["Competitor Name"]
    ELSE JStr("Unknown Competitor")
C19_SuccessfulUpdate ==
    [][\A i \in TaskIds :
          (UpdateTask(i) /\ tasks[i].pc = "await_model" /\ Updated(i)') =>
              LET t == tasks'[i]
                  key == <<tasks[i].path, "">>
              IN /\ t.path = tasks[i].path
                 /\ fs'[key].kind = "json"
                 /\ fs'[key].data = StampedToday(ModelUpdate(t)["updated_competitor_data"])
                 /\ \A k \in FileKeys \ {key} : fs'[k] = fs[k]
                 /\ t.ret = [tag |-> "pair", path |-> tasks[i].path,
                             summary |-> [name |-> NameRead(t),
                                          text |-> ModelUpdate(t)["change_summary"]]]]_vars

\* on day 2 the model returned a record with a stale LastUpdated: the file holds day 2
C19_Witness ==
    /\ Updated(1) /\ tasks[1].lastText = "stale_date" /\ today = 2
    /\ RecordFile(tasks[1].path).data[2]["LastUpdated"] = <<"date", 2>>
    /\ tasks[1].ret.summary = [name |-> JStr("Acme"), text |-> Summary]
    /\ mainPc = "done" /\ result = <<tasks[1].ret>>

\* C18: in main_update a failing update (unreadable file, unparsable or non-object
\* content, model or validation failure) stays with its file: main_update does not
\* raise because of it, and no other update task and not the discovery task is cut
\* short.
C18_UpdateFailureIsolated ==
    /\ mainPc = "raised" => \A i \in TaskIds : tasks[i].pc # "raised"
    /\ \A i \in TaskIds : tasks[i].pc # "cancelled"
    /\ call.pc # "cancelled"

\* C20: the list discover_new_competitors_async returns holds no name that matches,
\* case-insensitively, a name of existing_competitors.
Lower(c) == CASE c = "A" -> "a" [] c = "B" -> "b" [] c = "Z" -> "z" [] OTHER -> c
LowerCase(chars) == [i \in 1..Len(chars) |-> Lower(chars[i])]
Discovered == call.fn = "discover" /\ call.pc = "returned"
C20_DiscoveryExcludesKnown ==
    (mode = "call" /\ Discovered) =>
        \A k \in 1..Len(call.out) : \A e \in 1..Len(call.arg) :
            IsText(call.out[k]) => LowerCase(call.out[k][2]) # LowerCase(call.arg[e])

\* C21: discover_new_competitors_async sends exactly one model request and always
\* returns a list: after a model error, a response that does not parse, a response
\* that is not an object or a new_competitors value that is not a list it returns
\* the empty list, and an empty list of the model is returned as it is.
DiscoveryCall == call.fn = "discover"
\* the new_competitors value of a response that is an object, [] when it has none
NamesField(text) ==
    IF "new_competitors" \in DOMAIN DiscoverLoads(text)[2]
    THEN DiscoverLoads(text)[2]["new_competitors"] ELSE <<"list", <<>>>>
Unusable(text) ==
    \/ text = ModelError
    \/ DiscoverLoads(text) = Invalid
    \/ DiscoverLoads(text)[1] # "dict"
    \/ NamesField(text)[1] # "list"
C21_DiscoveryNeverRaises ==
    DiscoveryCall =>
        /\ call.pc \in {"called", "await_model", "returned"}
        /\ call.requests = (IF call.pc = "called" THEN 0 ELSE 1)
        /\ call.pc = "returned" =>
              /\ Unusable(call.text) => call.out = <<>>
              /\ call.text = "none_found" => call.out = <<>>
              /\ ~Unusable(call.text) =>
                    call.out = NamesField(call.text)[2]

C21_Witness ==
    /\ DiscoveryCall /\ call.pc = "returned" /\ call.requests = 1
    /\ call.text = "not_list" /\ call.out = <<>>

\* C22: with an empty list of change summaries generate_top_changes_summary_async
\* returns the fixed sentence without sending a model request, and a run of
\* main_update in which no update succeeded publishes that sentence as its digest
\* without a request for the digest.
DigestOfNothing == call.fn = "digest" /\ call.arg = <<>> /\ call.pc # "called"
NoUpdateSucceeded ==
    /\ mode = "main" /\ mainPc \in {"populate", "append", "done", "raised"}
    /\ result.returned = "" /\ result.update_results # <<>>
    /\ \A k \in DOMAIN result.update_results : result.update_results[k].tag = "none"
C22_DigestSentinel ==
    /\ DigestOfNothing =>
          /\ call.pc = "returned" /\ call.requests = 0
          /\ call.out = "No significant competitor updates found in this run."
    /\ NoUpdateSucceeded =>
          /\ result.digest = "No significant competitor updates found in this run."
          /\ result.summary_call.requests = 0

C22_Witness == DigestOfNothing /\ call.pc = "returned"
C22_WitnessMain == NoUpdateSucceeded /\ result.published

\* C23: for each record it reads, add_json_to_notion_db sends exactly one write to
\* the database: an update of the page the lookup by title found, a create when
\* the lookup found none; never both, and no create after a lookup that found a page.
Upload(i) == tasks[i].kind = "upload"
HoldsRecord(i) == Upload(i) /\ tasks[i].old[1] = "dict"
Writes(i) == SelectSeq(tasks[i].calls, LAMBDA op : op \in {"update", "create"})
TitleSought(i) ==
    IF "Competitor Name" \in DOMAIN tasks[i].old[2]
    THEN Str(tasks[i].old[2]["Competitor Name"]) ELSE <<>>
C23_OneWritePerRecord ==
    \A i \in TaskIds :
        /\ Upload(i) /\ ~HoldsRecord(i) => tasks[i].calls = <<>>
        /\ HoldsRecord(i) =>
              /\ Len(Writes(i)) <= 1
              /\ tasks[i].pc = "done" => Len(Writes(i)) = 1
              /\ tasks[i].lookup = "found" /\ tasks[i].pc # "await_query"
                    => /\ Writes(i) = <<"update">>
                       /\ tasks[i].page[2] \in 1..Len(notion.pages)
                       /\ notion.pages[tasks[i].page[2]].properties["Competitor Name"].value[1]
                              = TitleSought(i)
              /\ tasks[i].lookup # "found" /\ tasks[i].pc # "await_query"
                    => Writes(i) = <<"create">>

C23_Witness ==
    \E i \in TaskIds :
        /\ HoldsRecord(i) /\ tasks[i].pc = "done" /\ tasks[i].ret = [tag |-> "bool", value |-> TRUE]
        /\ tasks[i].lookup = "found" /\ tasks[i].calls = <<"query", "update">>

\* C24: a lookup that raises counts as "not found": the create is sent, and the
\* record's reconciliation succeeds when the create does.
C24_LookupErrorCreates ==
    \A i \in TaskIds :
        Upload(i) /\ tasks[i].lookup = "error" =>
            /\ tasks[i].calls = <<"query", "create">>
            /\ tasks[i].pc \in {"await_create", "done"}
            /\ tasks[i].pc = "done" => tasks[i].ret = [tag |-> "bool", value |-> tasks[i].wrote]

C24_Witness ==
    \E i \in TaskIds :
        /\ Upload(i) /\ tasks[i].lookup = "error" /\ tasks[i].pc = "done"
        /\ tasks[i].ret = [tag |-> "bool", value |-> TRUE]
        /\ \E k \in 1..Len(notion.pages) : notion.pages[k].from = tasks[i].path

\* C25: populate_notion_db_from_folder runs add_json_to_notion_db for every .json
\* file of the folder whatever happens to the others, does not raise, and counts
\* as successful exactly the records whose create or update was completed.
Counted == mode = "populate" /\ mainPc = "returned" /\ result.returned = "counted"
C25_BatchNeverAborts ==
    /\ mode = "populate" => mainPc \in {"init", "gather", "returned"}
    /\ Counted =>
          /\ {tasks[i].path : i \in 1..Len(names)} = ListedPaths(fs)
          /\ \A i \in 1..Len(names) : Upload(i) /\ tasks[i].pc \in {"done", "raised"}
          /\ \A i \in 1..Len(names) : HoldsRecord(i) => Len(Writes(i)) = 1
          /\ result.successful_uploads
                = Cardinality({i \in 1..Len(names) : tasks[i].wrote})

C25_Witness ==
    /\ Counted /\ Len(names) = 2 /\ result.successful_uploads = 1
    /\ \E i \in 1..2 : tasks[i].pc = "raised"

\* C26: reconciling the same record file twice, every call of the database
\* succeeding, leaves exactly one page for the record, whatever the record holds.
PagesFrom(p) == {k \in 1..Len(notion.pages) : notion.pages[k].from = p}
WritesFor(p) == Len(SelectSeq(notion.writes, LAMBDA w : w = p))
C26_IdempotentUpsert ==
    \A p \in RecordPaths :
        WritesFor(p) >= 2 /\ ~notion.failed => Cardinality(PagesFrom(p)) = 1

\* C27: the reconciliations of one pass run one after the other: the lookup and
\* the write of one record are never in flight together with those of another, and
\* two record files with the same title never both create a page in one pass.
InStore(i) == Upload(i) /\ tasks[i].pc \in {"await_query", "await_update", "await_create"}
C27_SerializedPass ==
    /\ Cardinality({i \in TaskIds : InStore(i)}) <= 1
    /\ \A i, j \in TaskIds :
          /\ i # j /\ HoldsRecord(i) /\ HoldsRecord(j)
          /\ TitleSought(i) = TitleSought(j) /\ TitleSought(i) \notin {<<>>, <<"N", "/", "A">>}
          /\ tasks[i].lookup = "empty" /\ tasks[j].lookup = "empty"
          => ~(Writes(i) = <<"create">> /\ Writes(j) = <<"create">>)

\* two files with the same title have both created a page in one pass
C27_TwinCreates ==
    \A i, j \in TaskIds :
        /\ i # j /\ HoldsRecord(i) /\ HoldsRecord(j)
        /\ TitleSought(i) = TitleSought(j) /\ TitleSought(i) \notin {<<>>, <<"N", "/", "A">>}
        /\ tasks[i].lookup = "empty" /\ tasks[j].lookup = "empty"
        => ~(tasks[i].wrote /\ tasks[j].wrote)

\* C28: within one run no two research or update operations of the same competitor
\* are in flight at the same time, whatever list of names (a repeated name
\* included) or set of record files the run is given.
InFlight(i) ==
    tasks[i].kind \in {"research", "update"}
        /\ tasks[i].pc \in {"await_model", "sleep", "tenacity_wait"}
Identity(i) == IF tasks[i].kind = "research" THEN tasks[i].name ELSE tasks[i].path
C28_OneInFlightPerIdentity ==
    \A i, j \in TaskIds :
        i # j /\ InFlight(i) /\ InFlight(j) => Identity(i) # Identity(j)

\* C29: when the token, the database id, the summary page id or the company
\* context is missing, or the output folder does not exist, main_update returns
\* without a model request, a written record file or a call of the database or
\* of the summary page.
Prerequisites == {"token", "database_id", "page_id", "context", "folder"}
MissingPrerequisite == mode = "main" /\ \E k \in Prerequisites : ~result.config[k]
C29_RefusesToStart ==
    MissingPrerequisite =>
        /\ mainPc \in {"init", "done"}
        /\ mainPc = "done" => result.returned \in {"missing_env", "missing_context", "missing_folder"}
        /\ \A i \in TaskIds : tasks[i].kind = "none" /\ tasks[i].pc = "idle"
        /\ call.fn = "none" /\ call.requests = 0 /\ result.summary_call.requests = 0
        /\ \A k \in DOMAIN fs : fs[k].kind = "json" => fs[k].writer # "update"
        /\ ~result.populated /\ ~result.published /\ notion.pages = <<>>

C29_Witness ==
    /\ MissingPrerequisite /\ mainPc = "done" /\ result.returned = "missing_context"
    /\ result.config.token /\ result.config.folder

\* C30: research tasks running together whose names differ after the replacement
\* of spaces and path separators by underscores never write the same record file
\* or the same diagnostic file.
Sanitized(name) == [k \in 1..Len(name) |-> IF name[k] \in {" ", "/"} THEN "_" ELSE name[k]]
WrittenBy(i) == {<<tasks[i].path, suffix>> : suffix \in tasks[i].touched}
C30_DistinctPaths ==
    \A i, j \in TaskIds :
        /\ i # j /\ tasks[i].kind = "research" /\ tasks[j].kind = "research"
        /\ Sanitized(tasks[i].name) # Sanitized(tasks[j].name)
        => /\ WrittenBy(i) \cap WrittenBy(j) = {}
           /\ \A suffix \in Suffixes : <<tasks[i].path, suffix>> # <<tasks[j].path, suffix>>

C30_Witness ==
    \E i, j \in TaskIds :
        /\ i # j /\ tasks[i].kind = "research" /\ tasks[j].kind = "research"
        /\ Sanitized(tasks[i].name) # Sanitized(tasks[j].name)
        /\ "" \in tasks[i].touched /\ ".fatal.txt" \in tasks[j].touched

\* C31: loading the schema never aborts; when config.json is unreadable, not JSON
\* or of the wrong shape, the field list and the type definitions are the built-in
\* ones after the load, and COMPETITOR_TYPES always holds the keys of the active
\* type definitions.
SchemaLoaded == call.fn = "load" /\ call.pc = "returned"
NotAnObject(file) ==
    \/ file.kind \in {"unreadable", "garbage"}
    \/ /\ file.kind = "json"
       /\ \/ file.data[1] # "dict"
          \/ /\ "initial_research" \in DOMAIN file.data[2]
             /\ file.data[2]["initial_research"][1] # "dict"
\* the value config.json gives for a setting, null when it gives none
Override(file, key) ==
    IF file.kind # "json" \/ NotAnObject(file) THEN <<"null", 0>>
    ELSE IF "initial_research" \notin DOMAIN file.data[2] THEN <<"null", 0>>
    ELSE IF key \notin DOMAIN file.data[2]["initial_research"][2] THEN <<"null", 0>>
    ELSE file.data[2]["initial_research"][2][key]
WellShaped(v, tag) ==
    v[1] = tag /\ (IF tag = "list" THEN v[2] # <<>> ELSE DOMAIN v[2] # {})
WrongShape(file) ==
    \/ NotAnObject(file)
    \/ Override(file, "csv_schema") # <<"null", 0>>
          /\ ~WellShaped(Override(file, "csv_schema"), "list")
    \/ Override(file, "competitor_type_definitions") # <<"null", 0>>
          /\ ~WellShaped(Override(file, "competitor_type_definitions"), "dict")
C31_SchemaFallback ==
    SchemaLoaded =>
        /\ WrongShape(call.arg) =>
              /\ call.out.CSV_SCHEMA = BuiltinFields
              /\ call.out.COMPETITOR_TYPE_DEFINITIONS = BuiltinDefinitions
        /\ call.out.COMPETITOR_TYPES = DOMAIN call.out.COMPETITOR_TYPE_DEFINITIONS[2]

\* What the load does instead: each setting is decided on its own. It is replaced
\* by a non-empty list (non-empty object) found under its key and stays built-in
\* otherwise, whatever the other key holds.
C31_SchemaFallbackPerSetting ==
    SchemaLoaded =>
        /\ call.out.CSV_SCHEMA =
              (IF WellShaped(Override(call.arg, "csv_schema"), "list")
               THEN Override(call.arg, "csv_schema") ELSE BuiltinFields)
        /\ call.out.COMPETITOR_TYPE_DEFINITIONS =
              (IF WellShaped(Override(call.arg, "competitor_type_definitions"), "dict")
               THEN Override(call.arg, "competitor_type_definitions")
               ELSE BuiltinDefinitions)
        /\ call.out.COMPETITOR_TYPES = DOMAIN call.out.COMPETITOR_TYPE_DEFINITIONS[2]

\* a file with a usable field list and type definitions of the wrong shape
C31_HalfApplied ==
    /\ SchemaLoaded /\ WrongShape(call.arg)
    /\ call.out.CSV_SCHEMA = OverrideFields
    /\ call.out.COMPETITOR_TYPE_DEFINITIONS = BuiltinDefinitions

\* C32: for any record, the mapping map_data_to_notion_properties returns has
\* exactly the schema field names as keys; a missing or "N/A" value gets the empty
\* value of its type, and a record key outside the schema is dropped.
MissingOrNA(field) == Get(call.arg, field, JNull) \in {JNull, JText(NA)}
EmptyValue(type) ==
    CASE type = "title" -> <<Block(<<>>)>>
      [] type = "rich_text" -> <<Block(<<>>)>>
      [] OTHER -> <<"null", 0>>
C32_ExactlySchemaFields ==
    Mapped =>
        /\ DOMAIN call.out = SchemaFields
        /\ \A field \in SchemaFields : MissingOrNA(field) =>
               call.out[field] = Prop(DeclaredType(field), EmptyValue(DeclaredType(field)))

\* C32 amended: the same, except that a missing or "N/A" competitor name gets the
\* placeholder title "Untitled Competitor" instead of an empty title.
Untitled ==
    <<Block(<<"U", "n", "t", "i", "t", "l", "e", "d", " ",
              "C", "o", "m", "p", "e", "t", "i", "t", "o", "r">>)>>
C32_ExactlySchemaFieldsPlaceholder ==
    Mapped =>
        /\ DOMAIN call.out = SchemaFields
        /\ \A field \in SchemaFields : MissingOrNA(field) =>
               call.out[field] =
                   Prop(DeclaredType(field),
                        IF field = TITLE_FIELD_NAME THEN Untitled
                        ELSE EmptyValue(DeclaredType(field)))

\* a record with an "N/A" field, a list field and a key outside the schema
C32_Witness ==
    /\ Mapped
    /\ "Nickname" \in DOMAIN call.arg[2] /\ "Nickname" \notin DOMAIN call.out
    /\ "Overview" \in DOMAIN call.arg[2] /\ call.out["Overview"] = EmptyRichText
    /\ call.out["Key_Features"].value # <<Block(<<>>)>>
    /\ call.out[TITLE_FIELD_NAME].value = Untitled

\* C33: the wrapper type map_data_to_notion_properties emits for a field is the
\* property type create_notion_db_from_schema declares for it, whatever the value.
C33_WrapperMatchesDeclaration ==
    Mapped => \A field \in SchemaFields : call.out[field].type = DeclaredType(field)

\* C34: in main_update the digest, the store reconciliation and the page appends
\* start only after every update task and the discovery task have completed, and
\* the store reconciliation, when it runs, is complete before the first append.
PastBarrier ==
    \/ mainPc \in {"await_digest", "populate", "append"}
    \/ result.summary_call # NoCall \/ result.digest # ""
    \/ result.populated \/ result.published
Reconciles == SuccessfulUpdates(result.update_results) # <<>>
C34_SingleBarrier ==
    mode = "main" =>
        /\ PastBarrier =>
              /\ \A i \in 1..Len(names) : tasks[i].pc = "done"
              /\ call.fn = "discover" /\ call.pc = "returned"
              /\ Len(result.update_results) = Len(names)
        /\ (mainPc = "append" \/ result.published) => (Reconciles => result.populated)
        /\ result.populated => Reconciles

\* two updates succeeded, the store was reconciled and the summaries appended
C34_Witness ==
    /\ mode = "main" /\ mainPc = "done" /\ Len(names) = 2
    /\ Len(SuccessfulUpdates(result.update_results)) = 2
    /\ result.summary_call.requests = 1
    /\ result.populated /\ result.published

\* C35: when the record file is missing or does not hold parseable JSON,
\* update_single_competitor_async returns None without any model request and
\* without creating or writing a file.
NoRecordToUpdate(i) == UpdateTask(i) /\ tasks[i].before.kind \in {"absent", "partial"}
C35_UpdateNeedsRecord ==
    \A i \in TaskIds : (NoRecordToUpdate(i) /\ tasks[i].pc # "created") =>
        /\ tasks[i].pc = "done" /\ tasks[i].ret = RetNone
        /\ tasks[i].requests = 0
        /\ \A k \in FileKeys : k[1] = tasks[i].path =>
               fs[k] = (IF k[2] = "" THEN tasks[i].before ELSE Absent)

\* the part that holds: no such file ever leads to a model request or to a write,
\* and the update returns None unless reading the file raised
C35_NoRequestWithoutRecord ==
    \A i \in TaskIds : (NoRecordToUpdate(i) /\ tasks[i].pc # "created") =>
        /\ tasks[i].pc \in {"done", "raised"}
        /\ tasks[i].pc = "done" => tasks[i].ret = RetNone
        /\ tasks[i].requests = 0
        /\ \A k \in FileKeys : k[1] = tasks[i].path =>
               fs[k] = (IF k[2] = "" THEN tasks[i].before ELSE Absent)

\* C36: the list research_competitors_async returns holds the successful paths in
\* the order of the input names, whatever order the tasks completed in, and its
\* length plus the number of failed tasks is the number of input names.
ReturnedPath(i) == tasks[i].ret.tag = "path"
FailedTasks == {i \in 1..Len(names) : tasks[i].ret = RetNone}
C36_InputOrder ==
    (mode = "fanout" /\ mainPc = "done") =>
        LET kept == SelectSeq(Indices(Len(names)), ReturnedPath)
        IN /\ Len(result) = Len(kept)
           /\ \A k \in 1..Len(kept) :
                 /\ result[k] = tasks[kept[k]].ret.path
                 /\ result[k] = OutputFilePath(names[kept[k]])
           /\ Len(result) + Cardinality(FailedTasks) = Len(names)

\* the first task succeeded on a later attempt than the second, after a sleep:
\* its path still comes first
C36_Witness ==
    /\ mode = "fanout" /\ mainPc = "done" /\ Len(names) = 2
    /\ names[1] # names[2]
    /\ tasks[1].attempt > tasks[2].attempt
    /\ result = <<OutputFilePath(names[1]), OutputFilePath(names[2])>>
    /\ result[1] # result[2]

\* C37: in research, update and discovery alike, the text handed to the JSON
\* parser is the response without its leading ```json or ``` marker and without
\* its trailing ``` marker when they are present, and no other character of the
\* payload is removed.
Stripped == call.fn = "fence" /\ call.pc = "returned"
WithoutLeading(text) ==
    IF startswith(text, JsonFence) THEN SubSeq(text, Len(JsonFence) + 1, Len(text))
    ELSE IF startswith(text, Fence) THEN SubSeq(text, Len(Fence) + 1, Len(text))
    ELSE text
WithoutTrailing(text) ==
    IF endswith(text, Fence) THEN SubSeq(text, 1, Len(text) - Len(Fence)) ELSE text
MarkersRemoved(text) == strip(WithoutTrailing(WithoutLeading(strip(text))))
C37_OnlyMarkersRemoved ==
    Stripped => strip(call.out) = MarkersRemoved(call.arg.text)

\* what holds: research strips exactly the markers, and so do update and discovery
\* when the response has both the ```json marker and the closing marker, or none
Fenced(text) == startswith(strip(text), JsonFence) /\ endswith(strip(text), Fence)
Bare(text) == ~startswith(strip(text), Fence) /\ ~endswith(strip(text), Fence)
C37_ResearchOnlyMarkersRemoved ==
    (Stripped /\ (call.arg.site = "research" \/ Fenced(call.arg.text) \/ Bare(call.arg.text)))
        => strip(call.out) = MarkersRemoved(call.arg.text)

====
